---------------------------- MODULE Spec2Model ----------------------------
(***************************************************************************)
(* A state-machine model of the Shopify maintenance app:                   *)
(*   - the webhook signature verifier and the two ingestion handlers       *)
(*     (utils/shopify-webhook.server, the webhook routes, WebhookEvent);   *)
(*   - chunkArray;                                                         *)
(*   - the cursor pagination loops and the bulk orchestrators              *)
(*     (getAllLocationIds, runInventoryReset and its helpers).             *)
(* Each part has its own specification; the variables of the other parts   *)
(* stay at their idle values.                                              *)
(***************************************************************************)
EXTENDS Integers, Sequences, FiniteSets, TLC

VARIABLES
    secret,      \* process.env.SHOPIFY_API_SECRET
    handlers,    \* one record per ingestion handler invocation slot
    db,          \* the WebhookEvent table, in insertion order
    received,    \* number of webhook requests received so far
    chunkIn,     \* the arguments of a chunkArray call
    chunkOut,    \* its result
    run,         \* the locals of the running orchestrator function, its result object among them
    calls,       \* the remote calls made so far, with their replies
    inflight,    \* the requests sent to the remote and not answered yet
    remote,      \* how the remote pages its connections: "cursors", "restarts", "single"
    elsewhere    \* what others have added to the available quantity of i1 at L1

webhookVars == <<secret, handlers, db, received>>

chunkVars == <<chunkIn, chunkOut>>

orchVars == <<run, calls, inflight, remote, elsewhere>>

vars == <<secret, handlers, db, received, chunkIn, chunkOut, run, calls, inflight,
         remote, elsewhere>>

-----------------------------------------------------------------------------
(* JavaScript values                                                       *)

\* undefined / null
Undefined == [defined |-> FALSE]

Some(v) == [defined |-> TRUE, value |-> v]

\* Headers.get(name): null when the header is absent, else its value
Absent == [present |-> FALSE]

Header(v) == [present |-> TRUE, value |-> v]

\* JavaScript truthiness of a header value: null and "" are falsy
Truthy(h) == h.present /\ Len(h.value) > 0

\* Buffer.from(s, "utf8") for the characters a base64 digest is made of
Utf8Code(c) ==
    CASE c = "A" -> 65
      [] c = "B" -> 66
      [] c = "C" -> 67
      [] c = "D" -> 68
      [] c = "E" -> 69
      [] c = "F" -> 70
      [] OTHER   -> 61

BufferFrom(s) == [i \in 1..Len(s) |-> Utf8Code(s[i])]

\* the idle values of the parts a specification does not run
WebhookIdle ==
    /\ secret = Undefined
    /\ handlers = << >>
    /\ db = << >>
    /\ received = 0

ChunkIdle ==
    /\ chunkIn = Undefined
    /\ chunkOut = Undefined

OrchIdle ==
    /\ run = Undefined
    /\ calls = << >>
    /\ inflight = << >>
    /\ remote = "cursors"
    /\ elsewhere = 0

-----------------------------------------------------------------------------
(* Request inputs                                                          *)

Keys == {"k1", "k2"}

Bodies == {"", "{\"a\":1}", "{ \"a\": 1 }", "{\"a\":1"}

KeyChar(k) == IF k = "k1" THEN "A" ELSE "B"

BodyChar(b) ==
    CASE b = ""                -> "C"
      [] b = "{\"a\":1}"       -> "D"
      [] b = "{ \"a\": 1 }"    -> "E"
      [] OTHER                 -> "F"

\* crypto.createHmac("sha256", secret).update(rawBody).digest("base64"):
\* a keyed digest of fixed length, a string of characters
HmacSha256Base64(key, body) == <<KeyChar(key), BodyChar(body), "=">>

OtherBody(b) == IF b = "" THEN "{\"a\":1}" ELSE ""

\* signature header values a sender can put on a request with body b
SignatureHeaders(b) ==
    {Absent, Header(<<>>)}
    \cup {Header(HmacSha256Base64(k, b)) : k \in Keys}
    \cup {Header(HmacSha256Base64("k1", OtherBody(b))),
          Header(SubSeq(HmacSha256Base64("k1", b), 1, 2)),
          Header(HmacSha256Base64("k1", b) \o <<"A">>)}

Routes == {"app.inventory-reset", "webhooks.customers.data_request"}

MakeRequest(route, hmac, topic, shop, webhookId, apiVersion, body) ==
    [route |-> route,
     headers |-> [hmac |-> hmac, topic |-> topic, shop |-> shop,
                  webhookId |-> webhookId, apiVersion |-> apiVersion],
     body |-> body]

\* every combination of present, empty and absent headers
AllRequests ==
    {MakeRequest(r, h, t, s, w, v, b) :
        r \in Routes,
        h \in UNION {SignatureHeaders(bb) : bb \in Bodies},
        t \in {Absent, Header(""), Header("orders/create")},
        s \in {Absent, Header(""), Header("a.myshopify.com")},
        w \in {Absent, Header(""), Header("w1")},
        v \in {Absent, Header("2025-01")},
        b \in Bodies}


\* the requests of the ingestion runs: signed with the right key, signed with
\* another key, or unsigned; with and without the metadata headers
IngestRequests ==
    UNION {
      {MakeRequest(r, h, t, s, w, v, b) :
          r \in Routes,
          h \in {Absent} \cup {Header(HmacSha256Base64(k, b)) : k \in Keys},
          t \in {Header(""), Header("orders/create")},
          s \in {Absent, Header("a.myshopify.com")},
          w \in {Absent, Header(""), Header("w1")},
          v \in {Absent, Header("2025-01")}}
      : b \in Bodies}

Secrets == {Undefined, Some(""), Some("k1"), Some("k2")}

-----------------------------------------------------------------------------
(* utils/shopify-webhook.server                                            *)

getHeader(headers, name) == headers[name]

\* a comparison that looks at the first byte only
timingSafeEqualFirstByte(a, b) == a[1] = b[1]

\* crypto.timingSafeEqual on two buffers of the same length: every byte is
\* compared, the result is whether all are equal
timingSafeEqual(a, b) == \A i \in 1..Len(a) : a[i] = b[i]

AuthFailure(status, message) == [ok |-> FALSE, status |-> status, message |-> message]

\* x || undefined
OrUndefined(h) == IF Truthy(h) THEN Some(h.value) ELSE Undefined

\* x || ""
OrEmpty(h) == IF Truthy(h) THEN h.value ELSE ""

\* the verifier with the metadata check moved before the signature checks
verifyMetadataFirst(sec, request) ==
    LET hmacHeader == getHeader(request.headers, "hmac")
        digest     == HmacSha256Base64(sec.value, request.body)
        topic      == OrEmpty(getHeader(request.headers, "topic"))
        shop       == OrEmpty(getHeader(request.headers, "shop"))
    IN  IF ~sec.defined \/ sec.value = ""
          THEN AuthFailure(500, "Missing SHOPIFY_API_SECRET")
        ELSE IF topic = "" \/ shop = ""
          THEN AuthFailure(400, "Missing topic/shop headers")
        ELSE IF ~Truthy(hmacHeader)
          THEN AuthFailure(401, "Missing HMAC header")
        ELSE IF hmacHeader.value # digest
          THEN AuthFailure(401, "Invalid HMAC")
        ELSE [ok |-> TRUE, topic |-> topic, shop |-> shop,
              webhookId |-> OrUndefined(getHeader(request.headers, "webhookId")),
              apiVersion |-> OrUndefined(getHeader(request.headers, "apiVersion"))]

verifyShopifyWebhookRequest(sec, request) ==
    LET rawBody    == request.body
        hmacHeader == getHeader(request.headers, "hmac")
        digest     == HmacSha256Base64(sec.value, rawBody)
        a          == BufferFrom(digest)
        b          == BufferFrom(hmacHeader.value)
        topic      == OrEmpty(getHeader(request.headers, "topic"))
        shop       == OrEmpty(getHeader(request.headers, "shop"))
        webhookId  == OrUndefined(getHeader(request.headers, "webhookId"))
        apiVersion == OrUndefined(getHeader(request.headers, "apiVersion"))
    IN  IF ~sec.defined \/ sec.value = ""
          THEN AuthFailure(500, "Missing SHOPIFY_API_SECRET")
        ELSE IF ~Truthy(hmacHeader)
          THEN AuthFailure(401, "Missing HMAC header")
        ELSE IF Len(a) # Len(b) \/ ~timingSafeEqual(a, b)
          THEN AuthFailure(401, "Invalid HMAC")
        ELSE IF topic = "" \/ shop = ""
          THEN AuthFailure(400, "Missing topic/shop headers")
        ELSE [ok |-> TRUE, topic |-> topic, shop |-> shop,
              webhookId |-> webhookId, apiVersion |-> apiVersion]

JsonObject(members) == [type |-> "object", members |-> members]

\* JSON.parse on the request bodies: a document, or a SyntaxError
JSONParse(text) ==
    CASE text = "{\"a\":1}"    -> [threw |-> FALSE, value |-> JsonObject({<<"a", 1>>})]
      [] text = "{ \"a\": 1 }" -> [threw |-> FALSE, value |-> JsonObject({<<"a", 1>>})]
      [] OTHER                 -> [threw |-> TRUE]

\* a reader that parses the body whatever it is
readAlwaysParse(request) ==
    LET parsed == JSONParse(request.body)
    IN  IF parsed.threw THEN [threw |-> TRUE]
        ELSE [threw |-> FALSE, rawBody |-> request.body, json |-> parsed.value]

readShopifyWebhookJson(request) ==
    LET rawBody == request.body
        parsed  == IF rawBody # "" THEN JSONParse(rawBody)
                   ELSE [threw |-> FALSE, value |-> JsonObject({})]
    IN  IF parsed.threw THEN [threw |-> TRUE]
        ELSE [threw |-> FALSE, rawBody |-> rawBody, json |-> parsed.value]

-----------------------------------------------------------------------------
(* The WebhookEvent table                                                  *)

Null == Undefined

\* INSERT INTO "WebhookEvent": the columns create() does not give take the
\* table's defaults
NewWebhookEvent(table, data) ==
    [id          |-> Len(table) + 1,
     topic       |-> data.topic,
     shop        |-> data.shop,
     webhookId   |-> data.webhookId,
     apiVersion  |-> data.apiVersion,
     payload     |-> data.payload,
     status      |-> "PENDING",
     attempts    |-> 0,
     lastError   |-> Null,
     createdAt   |-> Len(table) + 1,
     processedAt |-> Null]

\* rows an out-of-band consumer has already worked on
ProcessedRow ==
    [id          |-> 1,
     topic       |-> "orders/create",
     shop        |-> "a.myshopify.com",
     webhookId   |-> Some("w0"),
     apiVersion  |-> Null,
     payload     |-> JsonObject({}),
     status      |-> "FAILED",
     attempts    |-> 2,
     lastError   |-> Some("timeout"),
     createdAt   |-> 1,
     processedAt |-> Some(1)]

InitialTables == {<< >>, <<ProcessedRow>>}

-----------------------------------------------------------------------------
(* The ingestion handlers (both routes run the same steps)                 *)

HandlerIds == {1, 2}

MaxRequests == 2

IdleHandler ==
    [pc |-> "idle", request |-> Undefined, auth |-> Undefined,
     json |-> Undefined, rows |-> << >>, response |-> Undefined]

Response(status, body) ==
    [status |-> status, body |-> body, thrown |-> FALSE, error |-> ""]

\* what the framework answers when the action rejects with error err
UncaughtError(err) ==
    [status |-> 500, body |-> "Unexpected Server Error", thrown |-> TRUE, error |-> err]

Receive(h, requests) ==
    /\ handlers[h].pc = "idle"
    /\ received < MaxRequests
    /\ \E req \in requests :
         handlers' = [handlers EXCEPT ![h] =
                        [IdleHandler EXCEPT !.pc = "verify", !.request = req]]
    /\ received' = received + 1
    /\ UNCHANGED <<secret, db, chunkVars, orchVars>>

\* const auth = await verifyShopifyWebhookRequest(request);
\* if (!auth.ok) return new Response(auth.message, { status: auth.status });
Verify(h) ==
    /\ handlers[h].pc = "verify"
    /\ LET auth == verifyShopifyWebhookRequest(secret, handlers[h].request)
       IN  handlers' = [handlers EXCEPT ![h] =
               IF auth.ok
               THEN [@ EXCEPT !.pc = "read", !.auth = auth]
               ELSE [@ EXCEPT !.pc = "done", !.auth = auth,
                              !.response = Response(auth.status, auth.message)]]
    /\ UNCHANGED <<secret, db, received, chunkVars, orchVars>>

\* const { rawBody, json } = await readShopifyWebhookJson(request);
ReadJson(h) ==
    /\ handlers[h].pc = "read"
    /\ LET r == readShopifyWebhookJson(handlers[h].request)
       IN  handlers' = [handlers EXCEPT ![h] =
               IF r.threw
               THEN [@ EXCEPT !.pc = "done", !.response = UncaughtError("SyntaxError")]
               ELSE [@ EXCEPT !.pc = "create", !.json = Some(r.json)]]
    /\ UNCHANGED <<secret, db, received, chunkVars, orchVars>>

CreateData(h) ==
    [topic      |-> handlers[h].auth.topic,
     shop       |-> handlers[h].auth.shop,
     webhookId  |-> handlers[h].auth.webhookId,
     apiVersion |-> handlers[h].auth.apiVersion,
     payload    |-> handlers[h].json.value]

\* an upsert keyed by webhookId: a redelivery overwrites the stored row
webhookEventUpsert(table, data) ==
    IF \E i \in 1..Len(table) : table[i].webhookId = data.webhookId
    THEN [i \in 1..Len(table) |->
            IF table[i].webhookId = data.webhookId
            THEN [NewWebhookEvent(table, data) EXCEPT !.id = table[i].id]
            ELSE table[i]]
    ELSE Append(table, NewWebhookEvent(table, data))

\* db.webhookEvent.create({ data }) when it resolves: one INSERT
webhookEventCreate(table, data) == Append(table, NewWebhookEvent(table, data))

\* a handler that acknowledges a delivery it has stored before without
\* storing it again
CreateDeduplicates(h) ==
    /\ handlers[h].pc = "create"
    /\ IF \E i \in 1..Len(db) :
            /\ db[i].webhookId = CreateData(h).webhookId
            /\ db[i].payload = CreateData(h).payload
       THEN /\ db' = db
            /\ handlers' = [handlers EXCEPT ![h] = [@ EXCEPT !.pc = "respond"]]
       ELSE \/ /\ db' = webhookEventCreate(db, CreateData(h))
               /\ handlers' = [handlers EXCEPT ![h] =
                                 [@ EXCEPT !.pc = "respond",
                                           !.rows = Append(@, Len(db) + 1)]]
            \/ /\ db' = db
               /\ handlers' = [handlers EXCEPT ![h] =
                                 [@ EXCEPT !.pc = "done",
                                           !.response = UncaughtError("PrismaClientError")]]
    /\ UNCHANGED <<secret, received, chunkVars, orchVars>>


\* a handler that acknowledges although the insert was rejected
CreateSwallowsRejection(h) ==
    /\ handlers[h].pc = "create"
    /\ \/ /\ db' = webhookEventCreate(db, CreateData(h))
          /\ handlers' = [handlers EXCEPT ![h] =
                            [@ EXCEPT !.pc = "respond",
                                      !.rows = Append(@, Len(db) + 1)]]
       \/ /\ db' = db
          /\ handlers' = [handlers EXCEPT ![h] = [@ EXCEPT !.pc = "respond"]]
    /\ UNCHANGED <<secret, received, chunkVars, orchVars>>

\* await db.webhookEvent.create({ data }): the row is written, or the call
\* rejects and nothing is written
Create(h) ==
    /\ handlers[h].pc = "create"
    /\ \/ /\ db' = webhookEventCreate(db, CreateData(h))
          /\ handlers' = [handlers EXCEPT ![h] =
                            [@ EXCEPT !.pc = "respond",
                                      !.rows = Append(@, Len(db) + 1)]]
       \/ /\ db' = db
          /\ handlers' = [handlers EXCEPT ![h] =
                            [@ EXCEPT !.pc = "done",
                                      !.response = UncaughtError("PrismaClientError")]]
    /\ UNCHANGED <<secret, received, chunkVars, orchVars>>

\* return new Response("OK", { status: 200 });
Respond(h) ==
    /\ handlers[h].pc = "respond"
    /\ handlers' = [handlers EXCEPT ![h] =
                      [@ EXCEPT !.pc = "done", !.response = Response(200, "OK")]]
    /\ UNCHANGED <<secret, db, received, chunkVars, orchVars>>

\* the response has been sent; the slot takes the next request
Complete(h) ==
    /\ handlers[h].pc = "done"
    /\ handlers' = [handlers EXCEPT ![h] = IdleHandler]
    /\ UNCHANGED <<secret, db, received, chunkVars, orchVars>>

-----------------------------------------------------------------------------
(* Specification of the verifier: one request of any shape is verified     *)

InitVerify ==
    /\ secret \in Secrets
    /\ \E req \in AllRequests :
         handlers = [h \in HandlerIds |->
                       IF h = 1 THEN [IdleHandler EXCEPT !.pc = "verify", !.request = req]
                       ELSE IdleHandler]
    /\ db = << >>
    /\ received = 1
    /\ ChunkIdle
    /\ OrchIdle

NextVerify == Verify(1)

SpecVerify == InitVerify /\ [][NextVerify]_vars

(* Specification of ingestion: requests are handled one after another      *)

InitWebhook ==
    /\ secret \in {Undefined, Some("k1")}
    /\ handlers = [h \in HandlerIds |-> IdleHandler]
    /\ db \in InitialTables
    /\ received = 0
    /\ ChunkIdle
    /\ OrchIdle

NextWebhook ==
    \/ Receive(1, IngestRequests)
    \/ Verify(1)
    \/ ReadJson(1)
    \/ Create(1)
    \/ Respond(1)
    \/ Complete(1)

SpecWebhook == InitWebhook /\ [][NextWebhook]_vars


-----------------------------------------------------------------------------
(* Properties of ingestion                                                 *)

SecretConfigured == secret.defined /\ secret.value # ""

Verified(h) == handlers[h].pc \notin {"idle", "verify"}

\* C1: a request that has ended either got 200 "OK" and inserted exactly one
\* row, which is in the table, or got a non-200 answer and inserted no row;
\* the row is in the table before the 200 is produced.
C1_AllOrNothing ==
    \A h \in HandlerIds :
        LET H == handlers[h]
        IN  /\ H.pc = "done" =>
                 \/ /\ H.response = Response(200, "OK")
                    /\ Len(H.rows) = 1
                 \/ /\ H.response.status # 200
                    /\ Len(H.rows) = 0
            /\ H.pc = "respond" => Len(H.rows) = 1
            /\ \A i \in 1..Len(H.rows) :
                 H.rows[i] \in 1..Len(db) /\ db[H.rows[i]].id = H.rows[i]

C1_Witness ==
    \E h \in HandlerIds :
        /\ handlers[h].pc = "done"
        /\ handlers[h].response.status = 200
        /\ Len(handlers[h].rows) = 1
        /\ received = 2

\* C2: the row an ingestion handler inserted is PENDING with attempts 0, no
\* lastError and no processedAt, carries the topic, shop, webhookId and
\* apiVersion of the request's headers (an empty optional header is stored as
\* NULL) and the JSON parse of the body the signature was verified over; an
\* empty body is stored as {} and is never a parse error.
C2_InsertedRow ==
    \A h \in HandlerIds :
        LET H   == handlers[h]
            req == H.request
            hd  == req.headers
        IN  /\ Len(H.rows) > 0 =>
                 LET row == db[H.rows[1]]
                 IN  /\ row.status = "PENDING"
                     /\ row.attempts = 0
                     /\ row.lastError = Null
                     /\ row.processedAt = Null
                     /\ hd.topic.present /\ row.topic = hd.topic.value
                     /\ hd.shop.present /\ row.shop = hd.shop.value
                     /\ row.webhookId =
                          IF hd.webhookId.present /\ hd.webhookId.value # ""
                          THEN Some(hd.webhookId.value) ELSE Null
                     /\ row.apiVersion =
                          IF hd.apiVersion.present /\ hd.apiVersion.value # ""
                          THEN Some(hd.apiVersion.value) ELSE Null
                     /\ SecretConfigured
                     /\ hd.hmac.present
                     /\ hd.hmac.value = HmacSha256Base64(secret.value, req.body)
                     /\ row.payload =
                          IF req.body = "" THEN JsonObject({})
                          ELSE JSONParse(req.body).value
            /\ (H.pc = "done" /\ H.auth.ok /\ req.body = "") =>
                 H.response.error # "SyntaxError"

C2_Witness ==
    \E h \in HandlerIds :
        /\ Len(handlers[h].rows) = 1
        /\ handlers[h].request.body = ""
        /\ handlers[h].request.headers.webhookId = Header("")
        /\ db[handlers[h].rows[1]].payload = JsonObject({})

\* C5: a step of ingestion leaves every row of the table as it is and at most
\* appends one row, in state PENDING.
C5_InsertOnly ==
    [][/\ Len(db') >= Len(db)
       /\ \A i \in 1..Len(db) : db'[i] = db[i]
       /\ Len(db') # Len(db) =>
            /\ Len(db') = Len(db) + 1
            /\ db'[Len(db')].status = "PENDING"]_vars

C5_Witness ==
    /\ Len(db) = 3
    /\ db[1] = ProcessedRow
    /\ db[2].webhookId = db[3].webhookId

-----------------------------------------------------------------------------
(* Properties of the verifier                                              *)

Digest(h) == HmacSha256Base64(secret.value, handlers[h].request.body)

FirstFailure(h, secretMissing, signatureMissing, metadataMissing) ==
    LET hd == handlers[h].request.headers
    IN  IF secretMissing THEN 500
        ELSE IF signatureMissing THEN 401
        ELSE IF hd.hmac.value # Digest(h) THEN 401
        ELSE IF metadataMissing THEN 400
        ELSE 200

AnswersWith(h, status) ==
    LET H == handlers[h]
    IN  /\ H.auth.ok <=> status = 200
        /\ ~H.auth.ok => /\ H.auth.status = status
                         /\ H.pc = "done"
                         /\ H.response.status = status
                         /\ H.response.body = H.auth.message

\* C4 as stated: 500 when the secret is not configured, else 401 when the
\* signature header is absent, else 401 when it does not match, else 400 when
\* the topic or the shop header is absent, else success.
C4_Original ==
    \A h \in HandlerIds :
        LET hd == handlers[h].request.headers
        IN  Verified(h) =>
              AnswersWith(h, FirstFailure(h, ~secret.defined,
                                             ~hd.hmac.present,
                                             ~hd.topic.present \/ ~hd.shop.present))

\* C4 (amended): 500 when the secret is unset or empty, else 401 when the
\* signature header is absent or empty, else 401 when it does not match, else
\* 400 when the topic or the shop header is absent or empty, else success; the
\* handler answers with that status and the verifier's message.
C4_Precedence ==
    \A h \in HandlerIds :
        LET hd == handlers[h].request.headers
        IN  Verified(h) =>
              AnswersWith(h, FirstFailure(h, ~SecretConfigured,
                                             ~Truthy(hd.hmac),
                                             ~Truthy(hd.topic) \/ ~Truthy(hd.shop)))

\* an unsigned request without topic gets 401 although its metadata is missing
C4_Witness ==
    \E h \in HandlerIds :
        LET H  == handlers[h]
            hd == H.request.headers
        IN  /\ Verified(h) /\ SecretConfigured
            /\ hd.hmac.present /\ hd.hmac.value # << >> /\ hd.hmac.value # Digest(h)
            /\ ~hd.topic.present
            /\ H.response.status = 401


-----------------------------------------------------------------------------
(* chunkArray                                                              *)

Min(a, b) == IF a < b THEN a ELSE b

SeqsUpTo(S, n) == UNION {[1..m -> S] : m \in 0..n}

RECURSIVE chunkWholeFrom(_, _, _)
chunkWholeFrom(arr, chunkSize, i) ==
    IF i + chunkSize <= Len(arr)
    THEN <<SubSeq(arr, i + 1, i + chunkSize)>> \o chunkWholeFrom(arr, chunkSize, i + chunkSize)
    ELSE << >>

\* a chunker that loses the short last chunk
chunkArrayDropsRemainder(arr, chunkSize) ==
    IF chunkSize <= 0 THEN <<arr>> ELSE chunkWholeFrom(arr, chunkSize, 0)

\* for (let i = 0; i < arr.length; i += chunkSize) out.push(arr.slice(i, i + chunkSize))
RECURSIVE chunkFrom(_, _, _)
chunkFrom(arr, chunkSize, i) ==
    IF i < Len(arr)
    THEN <<SubSeq(arr, i + 1, Min(i + chunkSize, Len(arr)))>>
         \o chunkFrom(arr, chunkSize, i + chunkSize)
    ELSE << >>

chunkArray(arr, chunkSize) ==
    IF chunkSize <= 0 THEN <<arr>> ELSE chunkFrom(arr, chunkSize, 0)

MaxArrayLen == 5

MaxChunkSize == 3

ChunkInputs ==
    {[arr |-> a, chunkSize |-> k] :
        a \in SeqsUpTo({"x", "y"}, MaxArrayLen), k \in (-1)..MaxChunkSize}
    \cup {[arr |-> [i \in 1..530 |-> i], chunkSize |-> 250]}

CallChunkArray ==
    /\ chunkOut = Undefined
    /\ chunkOut' = Some(chunkArray(chunkIn.arr, chunkIn.chunkSize))
    /\ UNCHANGED <<chunkIn, webhookVars, orchVars>>

InitChunk ==
    /\ chunkIn \in ChunkInputs
    /\ chunkOut = Undefined
    /\ WebhookIdle
    /\ OrchIdle

NextChunk == CallChunkArray

SpecChunk == InitChunk /\ [][NextChunk]_vars

RECURSIVE Concat(_)
Concat(seqs) == IF seqs = << >> THEN << >> ELSE Head(seqs) \o Concat(Tail(seqs))

\* C7: with k > 0 the concatenation of the chunks is arr, every chunk has 1..k
\* elements, all but the last have k, and there are ceil(len/k) of them (530
\* items with k = 250 give the lengths 250, 250, 30); with k <= 0 the result is
\* the one chunk arr.
C7_Chunks ==
    chunkOut.defined =>
        LET arr == chunkIn.arr
            k   == chunkIn.chunkSize
            out == chunkOut.value
        IN  /\ k > 0 =>
                 /\ Concat(out) = arr
                 /\ \A c \in 1..Len(out) : Len(out[c]) >= 1 /\ Len(out[c]) <= k
                 /\ \A c \in 1..(Len(out) - 1) : Len(out[c]) = k
                 /\ Len(out) = (Len(arr) + k - 1) \div k
            /\ (Len(arr) = 530 /\ k = 250) =>
                 [c \in 1..Len(out) |-> Len(out[c])] = <<250, 250, 30>>
            /\ k <= 0 => out = <<arr>>

\* an array that does not divide evenly: full chunks and a shorter last one
C7_Witness ==
    /\ chunkOut.defined
    /\ Len(chunkIn.arr) = 5
    /\ chunkIn.chunkSize = 2
    /\ Len(chunkOut.value) = 3
    /\ Len(chunkOut.value[3]) = 1


-----------------------------------------------------------------------------
(* The remote Admin API and graphqlJson                                    *)

\* A response body { data?, errors? }: present says that the body has a data
\* field, data that the field holds an object (a null data is not one), errors
\* is the errors field.

\* a response body without a data field: graphqlJson throws
NoData == [present |-> FALSE, data |-> FALSE, errors |-> Undefined]

GraphqlErrors == <<[message |-> "Throttled"]>>

\* the bodies graphqlJson fails on: no data and no errors, errors without
\* data, and errors with a null data
ErrorsOnly == [present |-> FALSE, data |-> FALSE, errors |-> Some(GraphqlErrors)]

FailedBodies ==
    {NoData,
     ErrorsOnly,
     [present |-> TRUE, data |-> FALSE, errors |-> Some(GraphqlErrors)]}

\* JSON.stringify(body.errors || body): the text of the errors, or of the body
ErrorPayload(body) ==
    IF body.errors.defined THEN [errors |-> body.errors.value] ELSE [body |-> body]

\* an error whose message does not tell what the remote answered
graphqlJsonDropsPayload(body) ==
    IF ~body.data
    THEN [threw |-> TRUE,
          error |-> [message |-> <<"Shopify GraphQL request failed: ", [body |-> << >>]>>]]
    ELSE [threw |-> FALSE, data |-> body]

\* if (!body.data) throw new Error(...); return body.data
graphqlJson(body) ==
    IF ~body.data
    THEN [threw |-> TRUE,
          error |-> [message |-> <<"Shopify GraphQL request failed: ", ErrorPayload(body)>>]]
    ELSE [threw |-> FALSE, data |-> body]

\* the run ends with the error graphqlJson threw
Threw(st, error) == [st EXCEPT !.pc = "threw", !.error = Some(error)]

\* an error that carries the result object the run had built
OutcomeWithPartialResult(st) ==
    CASE st.pc = "returned" -> [kind |-> "result", result |-> st.result]
      [] st.pc = "threw"    -> [kind |-> "error", error |-> st.error.value, result |-> st.result]
      [] OTHER              -> [kind |-> "pending"]

\* what the caller of a run gets: `return result`, or the error, which no
\* function of the run and no route action catches
Outcome(st) ==
    CASE st.pc = "returned" -> [kind |-> "result", result |-> st.result]
      [] st.pc = "threw"    -> [kind |-> "error", error |-> st.error.value]
      [] OTHER              -> [kind |-> "pending"]

PageData(nodes, hasNextPage, endCursor) ==
    [present |-> TRUE, data |-> TRUE, errors |-> Undefined, nodes |-> nodes,
     pageInfo |-> [hasNextPage |-> hasNextPage, endCursor |-> endCursor]]

\* a body that carries data together with top-level errors
WithErrors(body) == [body EXCEPT !.errors = Some(GraphqlErrors)]

\* endCursor is optional and nullable; a string may be empty
EndCursors == {Null, Some(""), Some("c1"), Some("c2")}

\* the pages a connection can answer with; the last page the bound allows
\* ends the connection
Pages(nodeLists, cursors, last) ==
    {PageData(n, h, c) :
        n \in nodeLists,
        h \in IF last THEN {FALSE} ELSE BOOLEAN,
        c \in cursors}

\* the n-th page of a remote that says there is a next page and gives no
\* cursor for it, a null and an empty one in turn, and answers the request
\* that follows with the same nodes
RestartPages(nodes, n) == {PageData(nodes, TRUE, IF n % 2 = 1 THEN Null ELSE Some(""))}

Call(op, variables, reply) == [op |-> op, variables |-> variables, reply |-> reply]

\* admin.graphql(query, { variables }): a request on its way to the remote
Request(op, variables) == [op |-> op, variables |-> variables]

\* the answered request with its answer
Answer(request, body) == Call(request.op, request.variables, body)

\* a cursor that never advances
StaleCursor(pageInfo) == Null

\* after = pageInfo.endCursor || null
NextCursor(pageInfo) ==
    IF pageInfo.endCursor.defined /\ pageInfo.endCursor.value # ""
    THEN pageInfo.endCursor
    ELSE Null

-----------------------------------------------------------------------------
(* getAllLocationIds                                                       *)

MaxLocationPages == 3

Location(id) == [id |-> id, name |-> id]

LocationNodeLists ==
    {<< >>, <<Location("A"), Location("B")>>, <<Location("C")>>}

\* for (const loc of data.locations.nodes) locationIds.push(loc.id)
PushIds(ids, nodes) == ids \o [i \in 1..Len(nodes) |-> nodes[i].id]

StartLocations ==
    [fn |-> "getAllLocationIds", pc |-> "fetch", after |-> Null, locationIds |-> << >>,
     error |-> Undefined]

\* the bodies the remote can answer a locations query with
LocationBodies(last) ==
    IF remote = "restarts"
    THEN RestartPages(<<Location("A"), Location("B")>>, Len(calls) + 1)
    ELSE Pages(LocationNodeLists, EndCursors, last)
           \cup {WithErrors(p) : p \in Pages({<<Location("C")>>}, {Some("c1")}, last)}
           \cup FailedBodies

\* the locations query the loop has sent and awaits, if it has not returned
LocationsSent(st) ==
    IF st.pc = "fetch"
    THEN <<Request("InventoryResetLocations", [after |-> st.after])>>
    ELSE << >>

\* a loop that also ends at a page that gives no cursor for the next one
LocationsFetchStopsWithoutCursor ==
    /\ run.fn = "getAllLocationIds"
    /\ run.pc = "fetch"
    /\ inflight # << >>
    /\ Len(calls) < MaxLocationPages
    /\ \E body \in LocationBodies(Len(calls) + 1 = MaxLocationPages) :
          /\ calls' = Append(calls, Answer(Head(inflight), body))
          /\ LET res   == graphqlJson(body)
                 reply == res.data
                 more  == reply.pageInfo.hasNextPage /\ NextCursor(reply.pageInfo) # Null
             IN  IF res.threw
                 THEN run' = Threw(run, res.error)
                 ELSE run' = [run EXCEPT
                         !.locationIds = PushIds(@, reply.nodes),
                         !.pc = IF more THEN "fetch" ELSE "returned",
                         !.after = IF more THEN NextCursor(reply.pageInfo) ELSE @]
    /\ inflight' = Tail(inflight) \o LocationsSent(run')
    /\ UNCHANGED <<webhookVars, chunkVars, remote, elsewhere>>

\* one turn of the loop: the answer to the query, then the nodes, then break
\* or advance and send the next query
LocationsFetch ==
    /\ run.fn = "getAllLocationIds"
    /\ run.pc = "fetch"
    /\ inflight # << >>
    /\ Len(calls) < MaxLocationPages
    /\ \E body \in LocationBodies(Len(calls) + 1 = MaxLocationPages) :
          /\ calls' = Append(calls, Answer(Head(inflight), body))
          /\ LET res   == graphqlJson(body)
                 reply == res.data
             IN  IF res.threw
                 THEN run' = Threw(run, res.error)
                 ELSE run' = [run EXCEPT
                         !.locationIds = PushIds(@, reply.nodes),
                         !.pc = IF reply.pageInfo.hasNextPage THEN "fetch" ELSE "returned",
                         !.after = IF reply.pageInfo.hasNextPage
                                   THEN NextCursor(reply.pageInfo) ELSE @]
    /\ inflight' = Tail(inflight) \o LocationsSent(run')
    /\ UNCHANGED <<webhookVars, chunkVars, remote, elsewhere>>

-----------------------------------------------------------------------------
(* scanInventoryPolicies                                                   *)

MaxScanPages == 3

SampleCap == 25

Variant(id, policy, productId, item) ==
    [id |-> id, title |-> id, sku |-> Null, inventoryPolicy |-> policy,
     product |-> [id |-> productId, title |-> productId, handle |-> productId],
     inventoryItem |-> item]

\* a page of 30 variants of which every fifth is DENY
ManyVariants ==
    [i \in 1..30 |->
       Variant(ToString(i), IF i % 5 = 0 THEN "DENY" ELSE "CONTINUE",
               IF i % 2 = 0 THEN "p1" ELSE "p2", Null)]

ScanNodeLists ==
    {<< >>,
     <<Variant("v1", "CONTINUE", "p1", Null), Variant("v2", "DENY", "p1", Null)>>,
     <<Variant("v3", "CONTINUE", "p2", Null)>>,
     ManyVariants}

Offender(v) ==
    [productTitle |-> v.product.title, productHandle |-> v.product.handle,
     variantTitle |-> v.title, sku |-> v.sku]

\* a scan that samples every offender
ScanVariantUncapped(st, v) ==
    LET seen == [st EXCEPT !.productIds = @ \cup {v.product.id},
                           !.visited = Append(@, v.id)]
    IN  IF v.inventoryPolicy = "CONTINUE"
        THEN [seen EXCEPT
                !.result.ok = FALSE,
                !.result.variantsWithContinue = @ + 1,
                !.productIdsWithContinue = @ \cup {v.product.id},
                !.result.sampleOffenders = Append(@, Offender(v))]
        ELSE seen

\* the body of for (const v of variants)
ScanVariant(st, v) ==
    LET seen == [st EXCEPT !.productIds = @ \cup {v.product.id},
                           !.visited = Append(@, v.id)]
    IN  IF v.inventoryPolicy = "CONTINUE"
        THEN [seen EXCEPT
                !.result.ok = FALSE,
                !.result.variantsWithContinue = @ + 1,
                !.productIdsWithContinue = @ \cup {v.product.id},
                !.result.sampleOffenders =
                    IF Len(@) < SampleCap THEN Append(@, Offender(v)) ELSE @]
        ELSE seen

RECURSIVE ScanVariants(_, _)
ScanVariants(st, variants) ==
    IF variants = << >> THEN st
    ELSE ScanVariants(ScanVariant(st, Head(variants)), Tail(variants))

StartScan ==
    [fn |-> "scanInventoryPolicies", pc |-> "fetch", after |-> Null, error |-> Undefined,
     productIds |-> {}, productIdsWithContinue |-> {}, visited |-> << >>,
     result |-> [ok |-> TRUE, productsScanned |-> 0, variantsScanned |-> 0,
                 productsWithContinue |-> 0, variantsWithContinue |-> 0,
                 sampleOffenders |-> << >>]]

\* the loop has ended: the set sizes are stored and the result returned
ScanReturn(st) ==
    [st EXCEPT !.pc = "returned",
               !.result.productsScanned = Cardinality(st.productIds),
               !.result.productsWithContinue = Cardinality(st.productIdsWithContinue)]

\* the bodies the remote can answer a scan query with
ScanBodies(last) ==
    IF remote = "restarts"
    THEN RestartPages(<<Variant("v1", "CONTINUE", "p1", Null), Variant("v2", "DENY", "p1", Null)>>,
                      Len(calls) + 1)
    ELSE Pages(ScanNodeLists, EndCursors, last)
           \cup {WithErrors(p) :
                   p \in Pages({<<Variant("v3", "CONTINUE", "p2", Null)>>}, {Some("c1")}, last)}
           \cup FailedBodies

\* the scan query the loop has sent and awaits, if it has not returned
ScanSent(st) ==
    IF st.pc = "fetch"
    THEN <<Request("InventoryPolicyScanVariants", [after |-> st.after])>>
    ELSE << >>

ScanFetch ==
    /\ run.fn = "scanInventoryPolicies"
    /\ run.pc = "fetch"
    /\ inflight # << >>
    /\ Len(calls) < MaxScanPages
    /\ \E body \in ScanBodies(Len(calls) + 1 = MaxScanPages) :
          /\ calls' = Append(calls, Answer(Head(inflight), body))
          /\ LET res     == graphqlJson(body)
                 reply   == res.data
                 counted == [run EXCEPT !.result.variantsScanned = @ + Len(reply.nodes)]
                 scanned == ScanVariants(counted, reply.nodes)
             IN  IF res.threw
                 THEN run' = Threw(run, res.error)
                 ELSE run' = IF reply.pageInfo.hasNextPage
                             THEN [scanned EXCEPT !.after = NextCursor(reply.pageInfo)]
                             ELSE ScanReturn(scanned)
    /\ inflight' = Tail(inflight) \o ScanSent(run')
    /\ UNCHANGED <<webhookVars, chunkVars, remote, elsewhere>>

-----------------------------------------------------------------------------
(* Specification of the pagination loops                                   *)

InitPaginate ==
    /\ run \in {StartLocations, StartScan}
    /\ calls = << >>
    /\ inflight = IF run.fn = "getAllLocationIds" THEN LocationsSent(run) ELSE ScanSent(run)
    /\ remote = "cursors"
    /\ elsewhere = 0
    /\ WebhookIdle
    /\ ChunkIdle

NextPaginate == LocationsFetch \/ ScanFetch

SpecPaginate == InitPaginate /\ [][NextPaginate]_vars

\* the ids the loop has processed, in processing order
Collected == IF run.fn = "getAllLocationIds" THEN run.locationIds ELSE run.visited

\* the ids of the nodes of the pages received, page by page
RECURSIVE ReceivedIds(_)
ReceivedIds(log) ==
    IF log = << >> THEN << >>
    ELSE (IF Head(log).reply.data
          THEN [i \in 1..Len(Head(log).reply.nodes) |-> Head(log).reply.nodes[i].id]
          ELSE << >>) \o ReceivedIds(Tail(log))

TraversalInOrder ==
    /\ Collected = ReceivedIds(calls)
    /\ run.pc = "returned" =>
         /\ Len(calls) >= 1
         /\ \A k \in 1..Len(calls) :
              /\ calls[k].reply.data
              /\ calls[k].reply.pageInfo.hasNextPage <=> k < Len(calls)
    /\ (/\ Len(calls) = 3
        /\ \A k \in 1..3 : calls[k].reply.data
        /\ calls[1].reply.nodes = <<Location("A"), Location("B")>>
        /\ calls[2].reply.nodes = <<Location("C")>>
        /\ calls[3].reply.nodes = << >>
        /\ ~calls[3].reply.pageInfo.hasNextPage) =>
         run.pc = "returned" /\ Collected = <<"A", "B", "C">>

\* C6 as stated: the first request carries cursor null, each later request the
\* endCursor of the page just received, the nodes are processed in page order
\* then node order, and n pages of which only the last has hasNextPage=false
\* take n requests and give the concatenation of their nodes.
C6_Original ==
    /\ Len(calls) >= 1 => calls[1].variables.after = Null
    /\ \A k \in 1..(Len(calls) - 1) :
         calls[k + 1].variables.after = calls[k].reply.pageInfo.endCursor
    /\ TraversalInOrder

\* C6 (amended): as stated, except that a later request carries null when the
\* endCursor of the page just received is null or empty.
C6_Pagination ==
    /\ Len(calls) >= 1 => calls[1].variables.after = Null
    /\ \A k \in 1..(Len(calls) - 1) :
         LET c == calls[k].reply.pageInfo.endCursor
         IN  calls[k + 1].variables.after =
                IF c = Null \/ c = Some("") THEN Null ELSE c
    /\ TraversalInOrder

\* pages [A,B], [C], [] walked with the cursors the remote gave
C6_Witness ==
    /\ run.fn = "getAllLocationIds"
    /\ run.pc = "returned"
    /\ Len(calls) = 3
    /\ calls[2].variables.after = Some("c1")
    /\ calls[3].variables.after = Some("c2")
    /\ run.locationIds = <<"A", "B", "C">>


-----------------------------------------------------------------------------
(* User errors and the result object of runInventoryReset                  *)

UserError(code, message) == [message |-> message, code |-> code]

Benign == "ITEM_NOT_STOCKED_AT_LOCATION"

\* e.code || undefined
CodeOrUndefined(e) ==
    IF e.code.defined /\ e.code.value # "" THEN e.code ELSE Undefined

Sample(scope, e) == [scope |-> scope, message |-> e.message, code |-> CodeOrUndefined(e)]

\* a sample list without its cap
PushSampleUncapped(samples, scope, e) == Append(samples, Sample(scope, e))

\* if (result.sampleErrors.length < 25) result.sampleErrors.push({...})
PushSample(samples, scope, e) ==
    IF Len(samples) < SampleCap THEN Append(samples, Sample(scope, e)) ELSE samples

\* an accounting that treats the not-stocked code like any other error
RecordAdjustErrorNoSentinel(res, e) ==
    [res EXCEPT !.ok = FALSE,
                !.inventoryAdjustUserErrors = @ + 1,
                !.sampleErrors = PushSample(@, "inventoryAdjustQuantities", e)]

\* the body of for (const e of errors) after inventoryAdjustQuantities
RecordAdjustError(res, e) ==
    IF e.code = Some(Benign)
    THEN [res EXCEPT !.inventoryAdjustIgnoredNotStockedErrors = @ + 1]
    ELSE [res EXCEPT !.ok = FALSE,
                     !.inventoryAdjustUserErrors = @ + 1,
                     !.sampleErrors = PushSample(@, "inventoryAdjustQuantities", e)]

RECURSIVE RecordAdjustErrors(_, _)
RecordAdjustErrors(res, errors) ==
    IF errors = << >> THEN res
    ELSE RecordAdjustErrors(RecordAdjustError(res, Head(errors)), Tail(errors))

\* an accounting of policy errors that leaves the success flag alone
RecordPolicyErrorKeepsOk(res, e) ==
    [res EXCEPT !.policyUpdateUserErrors = @ + 1,
                !.sampleErrors = PushSample(@, "productVariantsBulkUpdate", e)]

\* the body of for (const e of errors) after productVariantsBulkUpdate
RecordPolicyError(res, e) ==
    [res EXCEPT !.ok = FALSE,
                !.policyUpdateUserErrors = @ + 1,
                !.sampleErrors = PushSample(@, "productVariantsBulkUpdate", e)]

RECURSIVE RecordPolicyErrors(_, _)
RecordPolicyErrors(res, errors) ==
    IF errors = << >> THEN res
    ELSE RecordPolicyErrors(RecordPolicyError(res, Head(errors)), Tail(errors))

NewResetResult(locationIds) ==
    [ok |-> TRUE,
     locations |-> Len(locationIds),
     variantsScanned |-> 0,
     inventoryAdjustCalls |-> 0,
     inventoryAdjustUserErrors |-> 0,
     inventoryAdjustIgnoredNotStockedErrors |-> 0,
     policyUpdateCalls |-> 0,
     policyUpdatedVariants |-> 0,
     policyUpdateUserErrors |-> 0,
     sampleErrors |-> << >>]

-----------------------------------------------------------------------------
(* The replies of the remote to runInventoryReset                          *)

MutationData(userErrors) ==
    [present |-> TRUE, data |-> TRUE, errors |-> Undefined, userErrors |-> userErrors]

\* the bodies the remote can answer a mutation with: the payload with its
\* user errors, or errors without data
MutationBodies(errorLists) == {MutationData(e) : e \in errorLists} \cup {ErrorsOnly}

\* thirty user errors, five of them the not-stocked code
ThirtyErrors ==
    [i \in 1..30 |->
       UserError(IF i % 6 = 0 THEN Some(Benign) ELSE Some("INTERNAL_ERROR"), <<"e", i>>)]

AdjustErrorLists ==
    {<< >>,
     <<UserError(Some("INVALID_REASON"), <<"r", 1>>)>>,
     <<UserError(Some(Benign), <<"m", 1>>),
       UserError(Some("INVALID_QUANTITY"), <<"m", 2>>),
       UserError(Null, <<"m", 3>>)>>,
     ThirtyErrors}

PolicyErrorLists ==
    {<< >>,
     <<UserError(Some("PRODUCT_SUSPENDED"), <<"p", 1>>),
       UserError(Some(Benign), <<"p", 2>>)>>}

Item(id, tracked) == Some([id |-> id, tracked |-> tracked])

ResetNodeLists ==
    {<< >>,
     <<Variant("v1", "CONTINUE", "p1", Item("i1", TRUE)),
       Variant("v2", "CONTINUE", "p2", Item("i2", FALSE)),
       Variant("v3", "CONTINUE", "p1", Item("i1", TRUE)),
       Variant("v4", "DENY", "p2", Null)>>,
     <<Variant("v5", "DENY", "p3", Item("i3", TRUE))>>}

ResetCursors == {Some("c1")}

Level(locationId, quantities) == [location |-> [id |-> locationId], quantities |-> quantities]

Quantity(name, quantity) == [name |-> name, quantity |-> quantity]

InventoryItemNode(id, levels) ==
    Some([typename |-> "InventoryItem", id |-> id, inventoryLevels |-> [nodes |-> levels]])

\* inventoryLevels(first: 250)
LevelsPageSize == 250

\* the locations of a shop with one location more than a levels connection
\* returns at once
ManyLocationIds == [k \in 1..(LevelsPageSize + 1) |-> ToString(k)]

\* the levels of an item of that shop: 7 available at the first and at the
\* last location, 0 at the others
ManyLevels ==
    [k \in 1..(LevelsPageSize + 1) |->
       Level(ToString(k),
             <<Quantity("available", IF k \in {1, LevelsPageSize + 1} THEN 7 ELSE 0)>>)]

\* the levels an inventoryLevels(first: 250) connection returns
FirstLevels(levels) == SubSeq(levels, 1, Min(LevelsPageSize, Len(levels)))

\* the levels the remote reports for an item: stocked at an allowed and at
\* another location, or nothing to adjust; in the shop with many locations,
\* the first levels of the item
LevelLists ==
    IF Len(run.locationIds) > LevelsPageSize
    THEN {FirstLevels(ManyLevels)}
    ELSE {<<Level("L1", <<Quantity("available", 7)>>),
            Level("L9", <<Quantity("available", 3)>>)>>,
          <<Level("L1", <<Quantity("available", 0)>>),
            Level("L1", << >>)>>}

LevelReplies(ids) ==
    {[present |-> TRUE, data |-> TRUE, errors |-> Undefined,
      nodes |-> [i \in 1..Len(ids) |-> InventoryItemNode(ids[i], levels)]] :
        levels \in LevelLists}

\* the bodies the remote can answer a levels query with; the remote may fail
\* to resolve the nodes and say so in errors next to the data
LevelBodies(ids) ==
    LevelReplies(ids)
      \cup {[present |-> TRUE, data |-> TRUE, errors |-> Some(GraphqlErrors),
              nodes |-> [i \in 1..Len(ids) |-> Null]]}
      \cup FailedBodies

\* the bodies the remote can answer a variants query of the reset with
VariantBodies(last) ==
    IF remote = "restarts"
    THEN RestartPages(<<Variant("v1", "CONTINUE", "p1", Item("i1", TRUE)),
                        Variant("v2", "CONTINUE", "p2", Item("i2", FALSE)),
                        Variant("v3", "CONTINUE", "p1", Item("i1", TRUE)),
                        Variant("v4", "DENY", "p2", Null)>>,
                      run.page + 1)
    ELSE IF remote = "single"
    THEN {PageData(<<Variant("v1", "CONTINUE", "p1", Item("i1", TRUE)),
                     Variant("v4", "DENY", "p2", Null)>>, FALSE, Null)}
    ELSE Pages(ResetNodeLists, ResetCursors, last)
           \cup {WithErrors(p) : p \in Pages({<< >>}, ResetCursors, last)}
           \cup FailedBodies

-----------------------------------------------------------------------------
(* getInventoryZeroingChanges: the changes of one reply                    *)

\* level.quantities.find((q) => q.name === "available")
RECURSIVE FindAvailable(_)
FindAvailable(quantities) ==
    IF quantities = << >> THEN Undefined
    ELSE IF Head(quantities).name = "available" THEN Some(Head(quantities))
    ELSE FindAvailable(Tail(quantities))

\* changes for the levels of every location, allowed or not
RECURSIVE LevelChangesAnyLocation(_, _, _)
LevelChangesAnyLocation(itemId, levels, allowed) ==
    IF levels = << >> THEN << >>
    ELSE IF Len(levels) > 1
    THEN LET half == Len(levels) \div 2
         IN  LevelChangesAnyLocation(itemId, SubSeq(levels, 1, half), allowed)
               \o LevelChangesAnyLocation(itemId, SubSeq(levels, half + 1, Len(levels)), allowed)
    ELSE LET level     == Head(levels)
             available == FindAvailable(level.quantities)
         IN  IF ~available.defined THEN << >>
             ELSE IF available.value.quantity = 0 THEN << >>
             ELSE <<[inventoryItemId |-> itemId,
                     locationId |-> level.location.id,
                     delta |-> 0 - available.value.quantity]>>

\* for (const level of node.inventoryLevels.nodes): the changes of the levels
\* in order, the body of the loop applied to each level (the sequence is
\* halved to keep the evaluation shallow for the 250 levels of a full answer)
RECURSIVE LevelChanges(_, _, _)
LevelChanges(itemId, levels, allowed) ==
    IF levels = << >> THEN << >>
    ELSE IF Len(levels) > 1
    THEN LET half == Len(levels) \div 2
         IN  LevelChanges(itemId, SubSeq(levels, 1, half), allowed)
               \o LevelChanges(itemId, SubSeq(levels, half + 1, Len(levels)), allowed)
    ELSE LET level     == Head(levels)
             available == FindAvailable(level.quantities)
         IN  IF level.location.id \notin allowed THEN << >>
             ELSE IF ~available.defined THEN << >>
             ELSE IF available.value.quantity = 0 THEN << >>
             ELSE <<[inventoryItemId |-> itemId,
                     locationId |-> level.location.id,
                     delta |-> 0 - available.value.quantity]>>

RECURSIVE NodeChanges(_, _)
NodeChanges(nodes, allowed) ==
    IF nodes = << >> THEN << >>
    ELSE LET node == Head(nodes)
             rest == NodeChanges(Tail(nodes), allowed)
         IN  IF ~node.defined \/ node.value.typename # "InventoryItem" THEN rest
             ELSE LevelChanges(node.value.id, node.value.inventoryLevels.nodes, allowed) \o rest

-----------------------------------------------------------------------------
(* runInventoryReset                                                       *)

MaxResetPages == 2

AdjustChunkSize == 250

LevelsChunkSize == 50

reasonFallbacks == <<"correction", "cycle_count", "other">>

Range(seq) == {seq[i] : i \in 1..Len(seq)}

\* Array.from(new Set(ids)): the first occurrence of each id, in order
RECURSIVE Unique(_)
Unique(ids) ==
    IF ids = << >> THEN << >>
    ELSE LET front == Unique(SubSeq(ids, 1, Len(ids) - 1))
             last  == ids[Len(ids)]
         IN  IF last \in Range(front) THEN front ELSE Append(front, last)

\* the ids of the tracked inventory items of a page, in order
RECURSIVE TrackedItemIds(_)
TrackedItemIds(variants) ==
    IF variants = << >> THEN << >>
    ELSE LET v == Head(variants)
         IN  (IF /\ v.inventoryItem.defined
                 /\ v.inventoryItem.value.id # ""
                 /\ v.inventoryItem.value.tracked
              THEN <<v.inventoryItem.value.id>> ELSE << >>)
             \o TrackedItemIds(Tail(variants))

\* policyByProduct.set(productId, list): a Map keeps the order of first insertion
\* a grouping that puts a variant before the ones its product already has
MapPushFirst(map, key, value) ==
    IF \E i \in 1..Len(map) : map[i].key = key
    THEN [i \in 1..Len(map) |->
            IF map[i].key = key THEN [map[i] EXCEPT !.list = <<value>> \o @] ELSE map[i]]
    ELSE Append(map, [key |-> key, list |-> <<value>>])

MapPush(map, key, value) ==
    IF \E i \in 1..Len(map) : map[i].key = key
    THEN [i \in 1..Len(map) |->
            IF map[i].key = key THEN [map[i] EXCEPT !.list = Append(@, value)] ELSE map[i]]
    ELSE Append(map, [key |-> key, list |-> <<value>>])

\* a grouping that takes every variant, whatever its policy
RECURSIVE PolicyByProductAll(_)
PolicyByProductAll(variants) ==
    IF variants = << >> THEN << >>
    ELSE LET front == PolicyByProductAll(SubSeq(variants, 1, Len(variants) - 1))
             v     == variants[Len(variants)]
         IN  MapPush(front, v.product.id, [id |-> v.id])

RECURSIVE PolicyByProduct(_)
PolicyByProduct(variants) ==
    IF variants = << >> THEN << >>
    ELSE LET front == PolicyByProduct(SubSeq(variants, 1, Len(variants) - 1))
             v     == variants[Len(variants)]
         IN  IF v.inventoryPolicy # "DENY"
             THEN MapPush(front, v.product.id, [id |-> v.id])
             ELSE front

\* the productVariantsBulkUpdate calls of a page, product by product, chunk by chunk
RECURSIVE PolicyCalls(_)
PolicyCalls(map) ==
    IF map = << >> THEN << >>
    ELSE LET chunks == chunkArray(Head(map).list, AdjustChunkSize)
         IN  [c \in 1..Len(chunks) |-> [productId |-> Head(map).key, chunk |-> chunks[c]]]
             \o PolicyCalls(Tail(map))

StartReset(locationIds) ==
    [fn |-> "runInventoryReset", pc |-> "variants", after |-> Null, error |-> Undefined,
     locationIds |-> locationIds, page |-> 0,
     pageInfo |-> Undefined,
     itemChunks |-> << >>, li |-> 0,
     changes |-> << >>, changeChunks |-> << >>, ci |-> 0, attempt |-> 0,
     inv |-> Undefined,
     policyCalls |-> << >>, pi |-> 0,
     result |-> NewResetResult(locationIds)]

\* a loop that goes on to the next page whatever the page says
EndPageGoesOn(st) ==
    [st EXCEPT !.pc = "variants", !.after = NextCursor(st.pageInfo)]

\* the end of a turn of the page loop: break, or advance the cursor
EndPage(st) ==
    IF ~st.pageInfo.hasNextPage
    THEN [st EXCEPT !.pc = "returned"]
    ELSE [st EXCEPT !.pc = "variants", !.after = NextCursor(st.pageInfo)]

\* step 2 of a page: the policy updates, if there are any
EnterPolicy(st) ==
    IF st.policyCalls # << >>
    THEN [st EXCEPT !.pc = "policy", !.pi = 1]
    ELSE EndPage(st)

\* step 1 of a page: the chunks of the changes, if there are any
EnterAdjust(st) ==
    LET chunks == chunkArray(st.changes, AdjustChunkSize)
    IN  IF chunks # << >>
        THEN [st EXCEPT !.pc = "adjust", !.changeChunks = chunks, !.ci = 1, !.attempt = 1]
        ELSE EnterPolicy([st EXCEPT !.changeChunks = chunks])

\* getInventoryZeroingChanges starts: the chunks of item ids, if there are any
EnterLevels(st) ==
    IF st.itemChunks # << >>
    THEN [st EXCEPT !.pc = "levels", !.li = 1]
    ELSE EnterAdjust(st)

\* an adjust call whose deltas are taken from the level as it is when the call
\* is made instead of the quantity that was read
ResetRequestFreshDelta(st) ==
    CASE st.pc = "variants" ->
           Request("InventoryResetVariants", [after |-> st.after])
      [] st.pc = "levels" ->
           Request("InventoryResetInventoryLevels", [ids |-> st.itemChunks[st.li]])
      [] st.pc = "adjust" ->
           Request("InventoryResetAdjustQuantities",
                   [input |-> [name |-> "available",
                               reason |-> reasonFallbacks[st.attempt],
                               changes |-> [i \in 1..Len(st.changeChunks[st.ci]) |->
                                              [st.changeChunks[st.ci][i] EXCEPT
                                                 !.delta = @ - elsewhere]]]])
      [] st.pc = "policy" ->
           LET call == st.policyCalls[st.pi]
           IN  Request("InventoryResetDenyPolicy",
                       [productId |-> call.productId,
                        variants |-> [i \in 1..Len(call.chunk) |->
                                        [id |-> call.chunk[i].id,
                                         inventoryPolicy |-> "DENY"]]])


\* the call runInventoryReset has made and awaits at each of its call sites
ResetRequest(st) ==
    CASE st.pc = "variants" ->
           Request("InventoryResetVariants", [after |-> st.after])
      [] st.pc = "levels" ->
           Request("InventoryResetInventoryLevels", [ids |-> st.itemChunks[st.li]])
      [] st.pc = "adjust" ->
           Request("InventoryResetAdjustQuantities",
                   [input |-> [name |-> "available",
                               reason |-> reasonFallbacks[st.attempt],
                               changes |-> st.changeChunks[st.ci]]])
      [] st.pc = "policy" ->
           LET call == st.policyCalls[st.pi]
           IN  Request("InventoryResetDenyPolicy",
                       [productId |-> call.productId,
                        variants |-> [i \in 1..Len(call.chunk) |->
                                        [id |-> call.chunk[i].id,
                                         inventoryPolicy |-> "DENY"]]])

\* the policy updates of a page sent together instead of one by one
ResetSentTogether(st) ==
    IF st.pc \in {"returned", "threw"} THEN << >>
    ELSE IF st.pc = "policy" /\ st.pi = 1
         THEN [k \in 1..Len(st.policyCalls) |-> ResetRequest([st EXCEPT !.pi = k])]
         ELSE <<ResetRequest(st)>>

\* every call is awaited where it is made: the function has one call out
\* until it returns or throws
ResetSent(st) ==
    IF st.pc \in {"returned", "threw"} THEN << >> ELSE <<ResetRequest(st)>>

\* the answer to the productVariants query and the synchronous code up to
\* the next call
ResetFetchVariants ==
    /\ run.fn = "runInventoryReset"
    /\ run.pc = "variants"
    /\ inflight # << >>
    /\ run.page < MaxResetPages
    /\ \E body \in VariantBodies(run.page + 1 = MaxResetPages) :
          /\ calls' = Append(calls, Answer(Head(inflight), body))
          /\ LET res   == graphqlJson(body)
                 reply == res.data
             IN  IF res.threw
                 THEN run' = Threw(run, res.error)
                 ELSE run' = EnterLevels(
                   [run EXCEPT
                      !.page = @ + 1,
                      !.pageInfo = reply.pageInfo,
                      !.result.variantsScanned = @ + Len(reply.nodes),
                      !.policyCalls = PolicyCalls(PolicyByProduct(reply.nodes)),
                      !.itemChunks = chunkArray(Unique(TrackedItemIds(reply.nodes)),
                                                LevelsChunkSize),
                      !.changes = << >>])
    /\ inflight' = Tail(inflight) \o ResetSent(run')
    /\ UNCHANGED <<webhookVars, chunkVars, remote, elsewhere>>

\* one inventory-levels query of getInventoryZeroingChanges
ResetFetchLevels ==
    /\ run.fn = "runInventoryReset"
    /\ run.pc = "levels"
    /\ inflight # << >>
    /\ LET ids == run.itemChunks[run.li]
       IN  \E body \in LevelBodies(ids) :
              /\ calls' = Append(calls, Answer(Head(inflight), body))
              /\ LET res   == graphqlJson(body)
                     reply == res.data
                     st    == [run EXCEPT !.changes =
                                 @ \o NodeChanges(reply.nodes, Range(run.locationIds))]
                 IN  IF res.threw
                     THEN run' = Threw(run, res.error)
                     ELSE run' = IF run.li < Len(run.itemChunks)
                                 THEN [st EXCEPT !.li = @ + 1]
                                 ELSE EnterAdjust(st)
    /\ inflight' = Tail(inflight) \o ResetSent(run')
    /\ UNCHANGED <<webhookVars, chunkVars, remote, elsewhere>>

\* a fallback that tries the next reason after any user error
RetryOnAnyError(userErrors) == userErrors # << >>

\* (userErrors || []).some((e) => e.code === "INVALID_REASON")
hasInvalidReason(userErrors) ==
    \E i \in 1..Len(userErrors) : userErrors[i].code = Some("INVALID_REASON")

\* one attempt of inventoryAdjustQuantitiesWithReasonFallback; when it returns,
\* the accounting of the returned response and the way to the next call
ResetAdjust ==
    /\ run.fn = "runInventoryReset"
    /\ run.pc = "adjust"
    /\ inflight # << >>
    /\ \E body \in MutationBodies(AdjustErrorLists) :
          /\ calls' = Append(calls, Answer(Head(inflight), body))
          /\ LET res    == graphqlJson(body)
                 errors == res.data.userErrors
                 st     == [run EXCEPT
                              !.inv = Some(res.data),
                              !.result = RecordAdjustErrors(
                                  [@ EXCEPT !.inventoryAdjustCalls = @ + 1], errors)]
             IN  IF res.threw
                 THEN run' = Threw(run, res.error)
                 ELSE IF hasInvalidReason(errors) /\ run.attempt < Len(reasonFallbacks)
                 THEN run' = [run EXCEPT !.attempt = @ + 1]
                 ELSE run' = IF run.ci < Len(run.changeChunks)
                             THEN [st EXCEPT !.ci = @ + 1, !.attempt = 1]
                             ELSE EnterPolicy(st)
    /\ inflight' = Tail(inflight) \o ResetSent(run')
    /\ UNCHANGED <<webhookVars, chunkVars, remote, elsewhere>>

\* an accounting that counts the variants of a call only when the call has
\* no user errors
ResetPolicyUpdateCountsAccepted ==
    /\ run.fn = "runInventoryReset"
    /\ run.pc = "policy"
    /\ inflight # << >>
    /\ LET call == run.policyCalls[run.pi]
       IN  \E body \in MutationBodies(PolicyErrorLists) :
              /\ calls' = Append(calls, Answer(Head(inflight), body))
              /\ LET res    == graphqlJson(body)
                     errors == res.data.userErrors
                     st     == [run EXCEPT
                                  !.result = RecordPolicyErrors(
                                      [@ EXCEPT !.policyUpdateCalls = @ + 1,
                                                !.policyUpdatedVariants =
                                                   IF errors = << >>
                                                   THEN @ + Len(call.chunk) ELSE @],
                                      errors)]
                 IN  IF res.threw
                     THEN run' = Threw(run, res.error)
                     ELSE run' = IF run.pi < Len(run.policyCalls)
                                 THEN [st EXCEPT !.pi = @ + 1]
                                 ELSE EndPage(st)
    /\ inflight' = Tail(inflight) \o ResetSent(run')
    /\ UNCHANGED <<webhookVars, chunkVars, remote, elsewhere>>

\* one productVariantsBulkUpdate call and the accounting of its user errors
ResetPolicyUpdate ==
    /\ run.fn = "runInventoryReset"
    /\ run.pc = "policy"
    /\ inflight # << >>
    /\ LET call == run.policyCalls[run.pi]
       IN  \E body \in MutationBodies(PolicyErrorLists) :
              /\ calls' = Append(calls, Answer(Head(inflight), body))
              /\ LET res    == graphqlJson(body)
                     errors == res.data.userErrors
                     st     == [run EXCEPT
                                  !.result = RecordPolicyErrors(
                                      [@ EXCEPT !.policyUpdateCalls = @ + 1,
                                                !.policyUpdatedVariants = @ + Len(call.chunk)],
                                      errors)]
                 IN  IF res.threw
                     THEN run' = Threw(run, res.error)
                     ELSE run' = IF run.pi < Len(run.policyCalls)
                                 THEN [st EXCEPT !.pi = @ + 1]
                                 ELSE EndPage(st)
    /\ inflight' = Tail(inflight) \o ResetSent(run')
    /\ UNCHANGED <<webhookVars, chunkVars, remote, elsewhere>>

-----------------------------------------------------------------------------
(* archiveProductsByVendor                                                 *)

MaxArchivePages == 2

Product(id, status) == [id |-> id, status |-> status]

ProductNodeLists ==
    {<< >>,
     <<Product("p1", "ACTIVE"), Product("p2", "ARCHIVED"), Product("p3", "DRAFT")>>,
     <<Product("p4", "ARCHIVED")>>}

ArchiveErrorLists ==
    {<< >>,
     <<UserError(Some("INVALID"), <<"a", 1>>), UserError(Some(""), <<"a", 2>>)>>,
     ThirtyErrors}

Vendors == {"Peruzzo"}

StartArchive(vendor) ==
    [fn |-> "archiveProductsByVendor", pc |-> "products", after |-> Null, error |-> Undefined,
     query |-> <<"vendor:", vendor>>, page |-> 0,
     pageInfo |-> Undefined, nodes |-> << >>, ni |-> 0,
     result |-> [ok |-> TRUE, scanned |-> 0, archived |-> 0, alreadyArchived |-> 0,
                 userErrors |-> 0, sampleErrors |-> << >>]]

RECURSIVE PushSamples(_, _, _)
PushSamples(samples, scope, errors) ==
    IF errors = << >> THEN samples
    ELSE PushSamples(PushSample(samples, scope, Head(errors)), scope, Tail(errors))

\* a loop that sends the update for every product, whatever its status
ArchiveScanEvery(st) ==
    IF st.ni > Len(st.nodes)
    THEN IF ~st.pageInfo.hasNextPage
         THEN [st EXCEPT !.pc = "returned"]
         ELSE [st EXCEPT !.pc = "products", !.after = NextCursor(st.pageInfo)]
    ELSE [st EXCEPT !.pc = "update", !.result.scanned = @ + 1]

\* for (const p of data.products.nodes) from node ni on, up to the next
\* productUpdate call or the end of the page
RECURSIVE ArchiveScan(_)
ArchiveScan(st) ==
    IF st.ni > Len(st.nodes)
    THEN IF ~st.pageInfo.hasNextPage
         THEN [st EXCEPT !.pc = "returned"]
         ELSE [st EXCEPT !.pc = "products", !.after = NextCursor(st.pageInfo)]
    ELSE IF st.nodes[st.ni].status = "ARCHIVED"
    THEN ArchiveScan([st EXCEPT !.ni = @ + 1,
                                !.result.scanned = @ + 1,
                                !.result.alreadyArchived = @ + 1])
    ELSE [st EXCEPT !.pc = "update", !.result.scanned = @ + 1]

\* the bodies the remote can answer a products query with
ProductBodies(last) ==
    IF remote = "restarts"
    THEN RestartPages(<<Product("p1", "ACTIVE"), Product("p2", "ARCHIVED"),
                        Product("p3", "DRAFT")>>,
                      run.page + 1)
    ELSE Pages(ProductNodeLists, ResetCursors, last)
           \cup {WithErrors(p) : p \in Pages({<<Product("p4", "ARCHIVED")>>}, ResetCursors, last)}
           \cup FailedBodies

\* the call archiveProductsByVendor has made and awaits at each of its call
\* sites
ArchiveRequest(st) ==
    CASE st.pc = "products" ->
           Request("ProductsByVendor", [after |-> st.after, query |-> st.query])
      [] st.pc = "update" ->
           Request("ArchiveProduct", [id |-> st.nodes[st.ni].id])

ArchiveSent(st) ==
    IF st.pc \in {"returned", "threw"} THEN << >> ELSE <<ArchiveRequest(st)>>

\* the answer to the products query and the synchronous code up to the next
\* call
ArchiveFetchProducts ==
    /\ run.fn = "archiveProductsByVendor"
    /\ run.pc = "products"
    /\ inflight # << >>
    /\ run.page < MaxArchivePages
    /\ \E body \in ProductBodies(run.page + 1 = MaxArchivePages) :
          /\ calls' = Append(calls, Answer(Head(inflight), body))
          /\ LET res   == graphqlJson(body)
                 reply == res.data
             IN  IF res.threw
                 THEN run' = Threw(run, res.error)
                 ELSE run' = ArchiveScan([run EXCEPT !.page = @ + 1,
                                                     !.pageInfo = reply.pageInfo,
                                                     !.nodes = reply.nodes,
                                                     !.ni = 1])
    /\ inflight' = Tail(inflight) \o ArchiveSent(run')
    /\ UNCHANGED <<webhookVars, chunkVars, remote, elsewhere>>

\* a loop that stops at the first product whose update has user errors
ArchiveUpdateStopsOnError ==
    /\ run.fn = "archiveProductsByVendor"
    /\ run.pc = "update"
    /\ inflight # << >>
    /\ \E body \in MutationBodies(ArchiveErrorLists) :
          /\ calls' = Append(calls, Answer(Head(inflight), body))
          /\ LET res    == graphqlJson(body)
                 errors == res.data.userErrors
             IN  IF res.threw
                 THEN run' = Threw(run, res.error)
                 ELSE IF Len(errors) > 0
                 THEN run' = [run EXCEPT
                                !.pc = "returned",
                                !.result.ok = FALSE,
                                !.result.userErrors = @ + Len(errors),
                                !.result.sampleErrors = PushSamples(@, "productUpdate", errors)]
                 ELSE run' = ArchiveScan([run EXCEPT !.ni = @ + 1, !.result.archived = @ + 1])
    /\ inflight' = Tail(inflight) \o ArchiveSent(run')
    /\ UNCHANGED <<webhookVars, chunkVars, remote, elsewhere>>

\* one productUpdate call, the accounting of its user errors, and the loop
\* up to the next call
ArchiveUpdate ==
    /\ run.fn = "archiveProductsByVendor"
    /\ run.pc = "update"
    /\ inflight # << >>
    /\ \E body \in MutationBodies(ArchiveErrorLists) :
          /\ calls' = Append(calls, Answer(Head(inflight), body))
          /\ LET res    == graphqlJson(body)
                 errors == res.data.userErrors
             IN  IF res.threw
                 THEN run' = Threw(run, res.error)
                 ELSE run' = ArchiveScan(
                   IF Len(errors) > 0
                   THEN [run EXCEPT
                           !.ni = @ + 1,
                           !.result.ok = FALSE,
                           !.result.userErrors = @ + Len(errors),
                           !.result.sampleErrors = PushSamples(@, "productUpdate", errors)]
                   ELSE [run EXCEPT !.ni = @ + 1, !.result.archived = @ + 1])
    /\ inflight' = Tail(inflight) \o ArchiveSent(run')
    /\ UNCHANGED <<webhookVars, chunkVars, remote, elsewhere>>

-----------------------------------------------------------------------------
(* Specification of the orchestrator runs                                  *)

InitOrchestrate ==
    /\ run \in {StartReset(<<"L1">>)} \cup {StartArchive(v) : v \in Vendors}
    /\ calls = << >>
    /\ inflight = IF run.fn = "runInventoryReset" THEN ResetSent(run) ELSE ArchiveSent(run)
    /\ remote = "cursors"
    /\ elsewhere = 0
    /\ WebhookIdle
    /\ ChunkIdle

NextOrchestrate ==
    \/ ResetFetchVariants
    \/ ResetFetchLevels
    \/ ResetAdjust
    \/ ResetPolicyUpdate
    \/ ArchiveFetchProducts
    \/ ArchiveUpdate

SpecOrchestrate == InitOrchestrate /\ [][NextOrchestrate]_vars

-----------------------------------------------------------------------------
(* Properties of the orchestrator runs                                     *)

LastCall(log) == log[Len(log)]

IsAdjustCall(c) == c.op = "InventoryResetAdjustQuantities"

IsPolicyCall(c) == c.op = "InventoryResetDenyPolicy"

IsArchiveCall(c) == c.op = "ArchiveProduct"

HasCode(errors, code) == \E i \in 1..Len(errors) : errors[i].code = Some(code)

ReasonOrder == <<"correction", "cycle_count", "other">>

ReasonIndex(reason) == CHOOSE k \in 1..3 : ReasonOrder[k] = reason

\* an answered attempt after which the fallback has to try the next reason
AsksForNextReason(c) ==
    /\ IsAdjustCall(c)
    /\ c.reply.data
    /\ HasCode(c.reply.userErrors, "INVALID_REASON")
    /\ c.variables.input.reason # "other"

\* an answered attempt whose response the fallback returns
IsReturned(c) ==
    /\ IsAdjustCall(c)
    /\ c.reply.data
    /\ ~AsksForNextReason(c)

AttemptsInOrder ==
    \A i \in 1..Len(calls) :
       IsAdjustCall(calls[i]) =>
          LET input == calls[i].variables.input
              k     == ReasonIndex(input.reason)
          IN  /\ input.reason \in {"correction", "cycle_count", "other"}
              /\ i >= k
              /\ \A j \in 1..(k - 1) :
                    /\ AsksForNextReason(calls[i - j])
                    /\ calls[i - j].variables.input.reason = ReasonOrder[k - j]
                    /\ calls[i - j].variables.input.changes = input.changes
                    /\ calls[i - j].variables.input.name = input.name
              /\ (i > k /\ IsAdjustCall(calls[i - k])) => IsReturned(calls[i - k])

FallbackStep ==
    (Len(calls') = Len(calls) + 1 /\ IsAdjustCall(LastCall(calls')) /\ LastCall(calls').reply.data) =>
       LET c == LastCall(calls')
       IN  IF IsReturned(c)
           THEN /\ run'.inv = Some(c.reply)
                /\ run'.result.inventoryAdjustCalls = run.result.inventoryAdjustCalls + 1
                /\ run'.pc = "adjust" => run'.attempt = 1 /\ run'.ci = run.ci + 1
           ELSE /\ run'.pc = "adjust"
                /\ run'.ci = run.ci
                /\ run'.inv = run.inv
                /\ run'.result = run.result

\* C8: the fallback tries "correction", "cycle_count", "other" in that order
\* with the same changes, makes between 1 and 3 calls, and returns the first
\* response without an INVALID_REASON user error, or the third response when
\* all three carry one; user errors of other codes trigger no further attempt.
C8_ReasonFallback == [](run.fn = "runInventoryReset" => AttemptsInOrder) /\ [][FallbackStep]_vars

\* two INVALID_REASON answers, then the third attempt with "other" is returned
C8_Witness ==
    /\ run.fn = "runInventoryReset"
    /\ Len(calls) >= 3
    /\ LET n == Len(calls)
       IN  /\ \A j \in 0..2 : IsAdjustCall(calls[n - j])
           /\ calls[n - 2].variables.input.reason = "correction"
           /\ calls[n - 1].variables.input.reason = "cycle_count"
           /\ calls[n].variables.input.reason = "other"
           /\ calls[n].reply.data
           /\ HasCode(calls[n].reply.userErrors, "INVALID_REASON")
           /\ run.inv = Some(calls[n].reply)

IsNotStocked(e) == e.code = Some("ITEM_NOT_STOCKED_AT_LOCATION")

Failures(errors) == SelectSeq(errors, LAMBDA e : ~IsNotStocked(e))

SamplesOf(scope, errors) ==
    [i \in 1..Len(errors) |->
       [scope |-> scope, message |-> errors[i].message,
        code |-> IF errors[i].code = Null \/ errors[i].code = Some("")
                 THEN Undefined ELSE errors[i].code]]

Take(seq, n) == SubSeq(seq, 1, Min(n, Len(seq)))

\* the accounting of one answered mutation of runInventoryReset; limit is the
\* number of entries sampleErrors may hold, or -1 for no limit
ErrorAccounting(limit) ==
    (/\ run.fn = "runInventoryReset"
     /\ Len(calls') = Len(calls) + 1
     /\ LastCall(calls').reply.data) =>
       LET c      == LastCall(calls')
           old    == run.result
           new    == run'.result
           Kept(samples) == IF limit < 0 THEN samples ELSE Take(samples, limit)
       IN  /\ IsReturned(c) =>
                LET errors == c.reply.userErrors
                    failed == Failures(errors)
                IN  /\ new.inventoryAdjustIgnoredNotStockedErrors =
                          old.inventoryAdjustIgnoredNotStockedErrors
                            + (Len(errors) - Len(failed))
                    /\ new.inventoryAdjustUserErrors =
                          old.inventoryAdjustUserErrors + Len(failed)
                    /\ new.policyUpdateUserErrors = old.policyUpdateUserErrors
                    /\ new.ok = (old.ok /\ failed = << >>)
                    /\ new.sampleErrors =
                          Kept(old.sampleErrors
                                 \o SamplesOf("inventoryAdjustQuantities", failed))
           /\ IsPolicyCall(c) =>
                LET errors == c.reply.userErrors
                IN  /\ new.policyUpdateUserErrors =
                          old.policyUpdateUserErrors + Len(errors)
                    /\ new.inventoryAdjustUserErrors = old.inventoryAdjustUserErrors
                    /\ new.inventoryAdjustIgnoredNotStockedErrors =
                          old.inventoryAdjustIgnoredNotStockedErrors
                    /\ new.ok = (old.ok /\ errors = << >>)
                    /\ new.sampleErrors =
                          Kept(old.sampleErrors
                                 \o SamplesOf("productVariantsBulkUpdate", errors))

\* C9 as stated: a user error of an inventoryAdjustQuantities response with code
\* ITEM_NOT_STOCKED_AT_LOCATION increments only the ignored counter; every other
\* user error increments the failure counter of its mutation, sets ok to false
\* and is appended to sampleErrors with the scope of its mutation.
C9_Original == [][ErrorAccounting(-1)]_vars

\* C9 (amended): as stated, except that the error is appended to sampleErrors
\* only while sampleErrors holds fewer than 25 entries.
C9_ErrorAccounting == [][ErrorAccounting(25)]_vars

\* 30 user errors of which 5 are benign: ok=false, 5 ignored, 25 failures, 25 samples
C9_Witness ==
    /\ run.fn = "runInventoryReset"
    /\ Len(calls) >= 1
    /\ IsReturned(LastCall(calls))
    /\ Len(LastCall(calls).reply.userErrors) = 30
    /\ run.result.inventoryAdjustCalls = 1
    /\ ~run.result.ok
    /\ run.result.inventoryAdjustIgnoredNotStockedErrors = 5
    /\ run.result.inventoryAdjustUserErrors = 25
    /\ Len(run.result.sampleErrors) = 25

\* the user errors a run records as failures, in the order of the calls
RECURSIVE RecordedErrors(_)
RecordedErrors(log) ==
    IF log = << >> THEN << >>
    ELSE LET c == LastCall(log)
         IN  RecordedErrors(SubSeq(log, 1, Len(log) - 1)) \o
             (IF ~c.reply.data THEN << >>
              ELSE IF IsReturned(c)
                   THEN SamplesOf("inventoryAdjustQuantities", Failures(c.reply.userErrors))
              ELSE IF IsPolicyCall(c)
                   THEN SamplesOf("productVariantsBulkUpdate", c.reply.userErrors)
              ELSE IF IsArchiveCall(c)
                   THEN SamplesOf("productUpdate", c.reply.userErrors)
              ELSE << >>)

\* C10: sampleErrors never holds more than 25 entries, and at the end of a
\* completed run it holds the first min(25, n) of the n user errors recorded
\* as failures, in the order they were encountered across mutations and pages.
C10_SampleErrors ==
    /\ Len(run.result.sampleErrors) <= 25
    /\ run.pc = "returned" =>
         /\ Len(run.result.sampleErrors) = Min(25, Len(RecordedErrors(calls)))
         /\ run.result.sampleErrors = Take(RecordedErrors(calls), 25)

\* a completed run that met more than 25 failures, from both of its mutations
C10_Witness ==
    /\ run.pc = "returned"
    /\ Len(RecordedErrors(calls)) > 25
    /\ Len(run.result.sampleErrors) = 25
    /\ \E i, j \in 1..25 :
          /\ i < j
          /\ run.result.sampleErrors[i].scope = "productVariantsBulkUpdate"
          /\ run.result.sampleErrors[j].scope = "inventoryAdjustQuantities"

-----------------------------------------------------------------------------
(* The success flag of the mutating orchestrators                          *)

\* the failures a run has recorded so far
FailuresRecorded ==
    IF run.fn = "runInventoryReset"
    THEN run.result.inventoryAdjustUserErrors + run.result.policyUpdateUserErrors
    ELSE run.result.userErrors

OkStaysFalse == ~run.result.ok => ~run'.result.ok

\* C11: at the end of a completed run of runInventoryReset or
\* archiveProductsByVendor, ok is true iff no failure was recorded in the run,
\* and once ok is false it never becomes true again.
C11_OkIffNoFailures ==
    /\ [](run.pc = "returned" => (run.result.ok <=> FailuresRecorded = 0))
    /\ [][OkStaysFalse]_vars

\* a completed reset whose only failures came from productVariantsBulkUpdate,
\* on the first of two pages
C11_Witness ==
    /\ run.fn = "runInventoryReset"
    /\ run.pc = "returned"
    /\ run.page = 2
    /\ ~run.result.ok
    /\ run.result.inventoryAdjustUserErrors = 0
    /\ run.result.policyUpdateUserErrors > 0
    /\ LastCall(calls).reply.data
    /\ IsPolicyCall(LastCall(calls)) => LastCall(calls).reply.userErrors = << >>

-----------------------------------------------------------------------------
(* Specification of all runs that call the remote                          *)

\* the call a run has out, whichever function it runs
Sent(st) ==
    CASE st.fn = "getAllLocationIds"       -> LocationsSent(st)
      [] st.fn = "scanInventoryPolicies"   -> ScanSent(st)
      [] st.fn = "runInventoryReset"       -> ResetSent(st)
      [] st.fn = "archiveProductsByVendor" -> ArchiveSent(st)

InitRuns ==
    /\ run \in {StartLocations, StartScan, StartReset(<<"L1">>)}
                 \cup {StartArchive(v) : v \in Vendors}
    /\ calls = << >>
    /\ inflight = Sent(run)
    /\ remote = "cursors"
    /\ elsewhere = 0
    /\ WebhookIdle
    /\ ChunkIdle

NextRuns ==
    \/ LocationsFetch
    \/ ScanFetch
    \/ ResetFetchVariants
    \/ ResetFetchLevels
    \/ ResetAdjust
    \/ ResetPolicyUpdate
    \/ ArchiveFetchProducts
    \/ ArchiveUpdate

SpecRuns == InitRuns /\ [][NextRuns]_vars

\* the payload the error of a failed call has to carry: the errors of the
\* body, or the body itself when it has none
RawPayload(body) ==
    IF body.errors = Undefined THEN [body |-> body] ELSE [errors |-> body.errors.value]

\* a step that receives the answer to a remote call
Answered == Len(calls') = Len(calls) + 1

\* what a run does with an answer, where fails says on which bodies
\* graphqlJson has to fail
RemoteFailureAborts(fails(_)) ==
    /\ Answered =>
         LET body == LastCall(calls').reply
         IN  IF fails(body)
             THEN /\ run'.pc = "threw"
                  /\ run'.error.defined
                  /\ run'.error.value.message[2] = RawPayload(body)
                  /\ [run' EXCEPT !.pc = run.pc, !.error = run.error] = run
                  /\ inflight' = << >>
             ELSE /\ run'.pc # "threw"
                  /\ run'.error = Undefined
    /\ run.pc = "threw" => UNCHANGED vars

DataFieldAbsent(body) == ~body.present

DataFieldAbsentOrNull(body) == ~body.present \/ ~body.data

\* C13 as stated: graphqlJson returns the data when the body has a top-level
\* data field and fails otherwise with an error carrying the raw error payload;
\* a failure aborts the run with that error, without another remote call.
C13_Original == [][RemoteFailureAborts(DataFieldAbsent)]_vars

\* C13 (amended): graphqlJson returns the data when the body has a top-level
\* data field that is not null, and fails otherwise, as stated.
C13_RemoteFailureAborts == [][RemoteFailureAborts(DataFieldAbsentOrNull)]_vars

\* a reset that failed on the answer to a mutation, after earlier calls
C13_Witness ==
    /\ run.fn = "runInventoryReset"
    /\ run.pc = "threw"
    /\ Len(calls) >= 3
    /\ IsPolicyCall(LastCall(calls))
    /\ ~LastCall(calls).reply.present
    /\ LastCall(calls).reply.errors = Some(GraphqlErrors)
    /\ run.error.value.message[2] = [errors |-> GraphqlErrors]
    /\ run.result.policyUpdateCalls = 0

\* a body that is malformed or carries top-level GraphQL errors
Errored(body) == ~body.present \/ ~body.data \/ body.errors # Undefined

\* C14: whenever the answer to a remote call is malformed or carries top-level
\* GraphQL errors, the error is propagated and the run aborts; the run never
\* continues with that answer as a success.
C14_ErrorsNeverSwallowed ==
    [][(Answered /\ Errored(LastCall(calls').reply)) => run'.pc = "threw"]_vars

-----------------------------------------------------------------------------
(* The changes getInventoryZeroingChanges emits                            *)

RECURSIVE Flatten(_)
Flatten(seqs) == IF seqs = << >> THEN << >> ELSE Head(seqs) \o Flatten(Tail(seqs))

\* the levels an answer returns, each with the id of its inventory item
ReturnedLevels(nodes) ==
    Flatten([n \in 1..Len(nodes) |->
               IF nodes[n] = Null \/ nodes[n].value.typename # "InventoryItem"
               THEN << >>
               ELSE [l \in 1..Len(nodes[n].value.inventoryLevels.nodes) |->
                       [item |-> nodes[n].value.id,
                        level |-> nodes[n].value.inventoryLevels.nodes[l]]]])

AvailableQuantities(level) == SelectSeq(level.quantities, LAMBDA q : q.name = "available")

\* the level is at an allowed location and has a non-zero available quantity
NeedsZeroing(level, allowed) ==
    /\ level.location.id \in allowed
    /\ AvailableQuantities(level) # << >>
    /\ AvailableQuantities(level)[1].quantity # 0

ZeroingChange(entry) ==
    [inventoryItemId |-> entry.item,
     locationId |-> entry.level.location.id,
     delta |-> 0 - AvailableQuantities(entry.level)[1].quantity]

IsLevelsCall(c) == c.op = "InventoryResetInventoryLevels"

ZeroingStep ==
    (/\ Answered
     /\ IsLevelsCall(LastCall(calls'))
     /\ LastCall(calls').reply.data) =>
       LET allowed == {run.locationIds[i] : i \in 1..Len(run.locationIds)}
           entries == SelectSeq(ReturnedLevels(LastCall(calls').reply.nodes),
                                LAMBDA e : NeedsZeroing(e.level, allowed))
       IN  run'.changes = run.changes \o [k \in 1..Len(entries) |-> ZeroingChange(entries[k])]

\* C15: for each returned level of a requested inventory item exactly one change
\* {inventoryItemId, locationId, delta = -q} is emitted when the location is
\* allowed and the available quantity q is non-zero, and none when q = 0, when
\* the location is not allowed or when the level has no available quantity; no
\* change has delta 0.
C15_ZeroingChanges ==
    /\ [][ZeroingStep]_vars
    /\ [](run.fn = "runInventoryReset" =>
            \A i \in 1..Len(run.changes) : run.changes[i].delta # 0)

\* available 7 at the allowed L1 and 3 at L9: exactly one change, delta -7
C15_Witness ==
    /\ run.fn = "runInventoryReset"
    /\ Len(calls) >= 1
    /\ IsLevelsCall(LastCall(calls))
    /\ LastCall(calls).reply.data
    /\ LastCall(calls).reply.nodes =
          <<InventoryItemNode("i1", <<Level("L1", <<Quantity("available", 7)>>),
                                      Level("L9", <<Quantity("available", 3)>>)>>)>>
    /\ run.changes = <<[inventoryItemId |-> "i1", locationId |-> "L1", delta |-> -7]>>

-----------------------------------------------------------------------------
(* The reset of a shop: the route runs runInventoryReset with all the      *)
(* locations of the shop, and the remote answers from the shop's state     *)

\* the action of the route: runInventoryReset({admin, locationIds: locations})
InitShop ==
    /\ run = StartReset(ManyLocationIds)
    /\ calls = << >>
    /\ inflight = ResetSent(run)
    /\ remote = "cursors"
    /\ elsewhere = 0
    /\ WebhookIdle
    /\ ChunkIdle

NextShop ==
    \/ ResetFetchVariants
    \/ ResetFetchLevels
    \/ ResetAdjust
    \/ ResetPolicyUpdate

SpecShop == InitShop /\ [][NextShop]_vars

\* the variants of the shop before the run
ShopVariants ==
    <<Variant("v1", "CONTINUE", "p1", Item("i1", TRUE)),
      Variant("v2", "CONTINUE", "p2", Item("i2", FALSE)),
      Variant("v3", "CONTINUE", "p1", Item("i1", TRUE)),
      Variant("v4", "DENY", "p2", Null)>>

\* a mutation the remote has applied: it answered without user errors
Applied(c) == c.reply.data /\ c.reply.userErrors = << >>

\* the inventory policy of a variant after the calls of a log
PolicyAfter(v, log) ==
    IF \E i \in 1..Len(log) :
          /\ IsPolicyCall(log[i])
          /\ Applied(log[i])
          /\ \E j \in 1..Len(log[i].variables.variants) :
                log[i].variables.variants[j].id = v.id
    THEN "DENY"
    ELSE v.inventoryPolicy

RECURSIVE SumDeltas(_, _, _)
SumDeltas(changes, itemId, locationId) ==
    IF changes = << >> THEN 0
    ELSE (IF /\ Head(changes).inventoryItemId = itemId
             /\ Head(changes).locationId = locationId
          THEN Head(changes).delta ELSE 0)
         + SumDeltas(Tail(changes), itemId, locationId)

\* the changes of the applied inventoryAdjustQuantities calls of a log
AppliedChanges(log) ==
    Flatten([i \in 1..Len(log) |->
               IF IsAdjustCall(log[i]) /\ Applied(log[i])
               THEN log[i].variables.input.changes ELSE << >>])

\* the available quantity of the tracked item i1 at the k-th location after
\* the calls of a log
AvailableAfter(k, log) ==
    ManyLevels[k].quantities[1].quantity
      + SumDeltas(AppliedChanges(log), "i1", ManyLevels[k].location.id)

LevelsAfter(log) ==
    [k \in 1..Len(ManyLevels) |->
       Level(ManyLevels[k].location.id, <<Quantity("available", AvailableAfter(k, log))>>)]

VariantsAfter(log) ==
    [i \in 1..Len(ShopVariants) |->
       [ShopVariants[i] EXCEPT !.inventoryPolicy = PolicyAfter(ShopVariants[i], log)]]

\* every answer of the log is what the shop holds at that moment, and nothing
\* failed: the variants in one page, the first levels of each requested item
AnsweredFromShop(log) ==
    \A i \in 1..Len(log) :
       LET c      == log[i]
           before == SubSeq(log, 1, i - 1)
       IN  /\ c.reply.data
           /\ c.reply.errors = Undefined
           /\ c.op = "InventoryResetVariants" =>
                 /\ c.reply.nodes = VariantsAfter(before)
                 /\ ~c.reply.pageInfo.hasNextPage
           /\ IsLevelsCall(c) =>
                 c.reply.nodes =
                    [j \in 1..Len(c.variables.ids) |->
                       InventoryItemNode(c.variables.ids[j], FirstLevels(LevelsAfter(before)))]
           /\ (IsAdjustCall(c) \/ IsPolicyCall(c)) => c.reply.userErrors = << >>

\* C16: when a reset completes with ok:true and nothing else changes the shop,
\* every tracked item has 0 available at every location of the shop and every
\* variant has inventory policy DENY.
C16_ShopZeroed ==
    (/\ run.pc = "returned"
     /\ run.result.ok
     /\ AnsweredFromShop(calls)) =>
       /\ \A k \in 1..Len(ManyLevels) : AvailableAfter(k, calls) = 0
       /\ \A i \in 1..Len(ShopVariants) : PolicyAfter(ShopVariants[i], calls) = "DENY"

-----------------------------------------------------------------------------
(* The reset of a store that is already reset                              *)

IsVariantsCall(c) == c.op = "InventoryResetVariants"

IsMutationCall(c) == IsAdjustCall(c) \/ IsPolicyCall(c) \/ IsArchiveCall(c)

\* every variant the store has shown to the run has inventoryPolicy DENY
AllDeny(log) ==
    \A i \in 1..Len(log) :
       (IsVariantsCall(log[i]) /\ log[i].reply.data) =>
          \A n \in 1..Len(log[i].reply.nodes) :
             log[i].reply.nodes[n].inventoryPolicy = "DENY"

\* no level the store has shown to the run needs zeroing
NothingStocked(log, allowed) ==
    \A i \in 1..Len(log) :
       (IsLevelsCall(log[i]) /\ log[i].reply.data) =>
          \A k \in 1..Len(ReturnedLevels(log[i].reply.nodes)) :
             ~NeedsZeroing(ReturnedLevels(log[i].reply.nodes)[k].level, allowed)

NoMutationCalls(log) == \A i \in 1..Len(log) : ~IsMutationCall(log[i])

AllowedLocations == {run.locationIds[i] : i \in 1..Len(run.locationIds)}

\* C17 as stated: a run of runInventoryReset against a store where every
\* variant already has inventoryPolicy DENY makes no mutation call and returns
\* ok:true.
C17_Original ==
    (run.fn = "runInventoryReset" /\ run.pc = "returned" /\ AllDeny(calls)) =>
       NoMutationCalls(calls) /\ run.result.ok

\* C17 (amended): such a run makes no productVariantsBulkUpdate call; when in
\* addition no tracked item has a non-zero available quantity at an allowed
\* location, it makes no mutation call at all and returns ok:true.
C17_DenySweepIdempotent ==
    (run.fn = "runInventoryReset" /\ AllDeny(calls)) =>
       /\ \A i \in 1..Len(calls) : ~IsPolicyCall(calls[i])
       /\ run.result.policyUpdateCalls = 0
       /\ run.result.policyUpdateUserErrors = 0
       /\ (run.pc = "returned" /\ NothingStocked(calls, AllowedLocations)) =>
             NoMutationCalls(calls) /\ run.result.ok

\* a completed run over two pages of DENY variants with a tracked item that
\* has nothing to zero
C17_Witness ==
    /\ run.fn = "runInventoryReset"
    /\ run.pc = "returned"
    /\ AllDeny(calls)
    /\ NothingStocked(calls, AllowedLocations)
    /\ run.result.variantsScanned = 2
    /\ Len(calls) = 4
    /\ IsLevelsCall(calls[2])
    /\ calls[2].reply.errors = Undefined
    /\ IsLevelsCall(calls[4])

-----------------------------------------------------------------------------
(* The result of scanInventoryPolicies                                     *)

\* the variants the scan has received, page by page
ScannedVariants(log) ==
    Flatten([i \in 1..Len(log) |-> IF log[i].reply.data THEN log[i].reply.nodes ELSE << >>])

ContinueVariants(log) ==
    SelectSeq(ScannedVariants(log), LAMBDA v : v.inventoryPolicy = "CONTINUE")

OffendersOf(variants) ==
    [i \in 1..Len(variants) |->
       [productTitle |-> variants[i].product.title,
        productHandle |-> variants[i].product.handle,
        variantTitle |-> variants[i].title,
        sku |-> variants[i].sku]]

\* C18: scanInventoryPolicies issues only queries, never a mutation; at the
\* end of a completed scan ok is true iff no scanned variant has
\* inventoryPolicy CONTINUE, variantsWithContinue is the number of such
\* variants and sampleOffenders holds the first min(25, variantsWithContinue)
\* of them in encounter order.
C18_ScanResult ==
    run.fn = "scanInventoryPolicies" =>
       /\ \A i \in 1..Len(calls) :
             calls[i].op = "InventoryPolicyScanVariants" /\ ~IsMutationCall(calls[i])
       /\ run.pc = "returned" =>
             /\ run.result.ok <=> ContinueVariants(calls) = << >>
             /\ run.result.variantsWithContinue = Len(ContinueVariants(calls))
             /\ Len(run.result.sampleOffenders) = Min(25, run.result.variantsWithContinue)
             /\ run.result.sampleOffenders = Take(OffendersOf(ContinueVariants(calls)), 25)

\* a completed scan of two pages with more than 25 offenders
C18_Witness ==
    /\ run.fn = "scanInventoryPolicies"
    /\ run.pc = "returned"
    /\ Len(calls) = 2
    /\ run.result.variantsWithContinue = 48
    /\ run.result.variantsScanned = 60
    /\ Len(run.result.sampleOffenders) = 25
    /\ ~run.result.ok

-----------------------------------------------------------------------------
(* One call at a time                                                      *)

\* a call is made in this step
Issues == inflight' # << >> /\ inflight' # inflight

\* the call that was out has returned in this step
Returns == inflight # << >> /\ calls' = Append(calls, Answer(Head(inflight), LastCall(calls').reply))

\* C19: within one orchestrator run at most one remote call is in flight at
\* any time: page fetches, inventory-level reads, fallback attempts, chunk
\* mutations and per-product mutations are issued one after another, each
\* only after the previous call has returned.
C19_OneCallInFlight ==
    [][/\ Len(inflight) <= 1
       /\ Len(inflight') <= 1
       /\ Issues => Returns
       /\ inflight # << >> => inflight' = << >> \/ Issues \/ inflight' = inflight]_vars

\* a fallback attempt is out after the page fetch, the level read and the
\* first attempt have returned
C19_Witness ==
    /\ run.fn = "runInventoryReset"
    /\ Len(calls) >= 3
    /\ IsAdjustCall(LastCall(calls))
    /\ Len(inflight) = 1
    /\ inflight[1].op = "InventoryResetAdjustQuantities"
    /\ inflight[1].variables.input.reason = "cycle_count"

-----------------------------------------------------------------------------
(* The policy updates of a page, and what is fetched                       *)

\* the positions of the answered productVariants queries in the log
VariantPages(log) == {k \in 1..Len(log) : IsVariantsCall(log[k]) /\ log[k].reply.data}

\* the calls made for the page fetched at position k: up to the next page fetch
CallsOfPage(log, k) ==
    LET later == {j \in (k + 1)..Len(log) : IsVariantsCall(log[j])}
        end   == IF later = {} THEN Len(log)
                 ELSE (CHOOSE j \in later : \A i \in later : j <= i) - 1
    IN  SubSeq(log, k + 1, end)

\* the page fetched at position k has been worked through
PageDone(log, k) ==
    \/ \E j \in (k + 1)..Len(log) : IsVariantsCall(log[j])
    \/ run.pc = "returned"

\* the variant ids sent for product p by the given calls, in sending order
SentFor(pageCalls, p) ==
    LET updates == SelectSeq(pageCalls, LAMBDA c : IsPolicyCall(c) /\ c.variables.productId = p)
    IN  Flatten([u \in 1..Len(updates) |->
                   [i \in 1..Len(updates[u].variables.variants) |->
                      updates[u].variables.variants[i].id]])

\* the ids of the variants of product p on a page whose policy is not DENY,
\* in the order of the page
EncounteredFor(nodes, p) ==
    LET open == SelectSeq(nodes, LAMBDA v : v.inventoryPolicy # "DENY" /\ v.product.id = p)
    IN  [i \in 1..Len(open) |-> open[i].id]

IsPrefix(s, t) == Len(s) <= Len(t) /\ s = SubSeq(t, 1, Len(s))

\* the inventory item ids the given calls have asked the levels of
FetchedItems(pageCalls) ==
    LET reads == SelectSeq(pageCalls, IsLevelsCall)
    IN  Flatten([r \in 1..Len(reads) |-> reads[r].variables.ids])

NoDuplicates(seq) == \A i, j \in 1..Len(seq) : seq[i] = seq[j] => i = j

\* the page fetches of a run in order: the first asks for the start, each
\* later one for what follows the page fetched before it
PagesFetchedOnce(log) ==
    LET fetches == SelectSeq(log, IsVariantsCall)
    IN  \A i \in 1..Len(fetches) :
           IF i = 1
           THEN fetches[i].variables.after = Null
           ELSE /\ fetches[i - 1].reply.data
                /\ fetches[i - 1].reply.pageInfo.hasNextPage
                /\ fetches[i].variables.after = fetches[i - 1].reply.pageInfo.endCursor

-----------------------------------------------------------------------------
(* User errors and the course of a run                                     *)

\* a mutation is answered in this step with user errors
MutationFailed ==
    /\ Answered
    /\ IsMutationCall(LastCall(calls'))
    /\ LastCall(calls').reply.data
    /\ LastCall(calls').reply.userErrors # << >>

\* the call that follows the mutation the run awaits, whatever its answer
\* says of user errors: the next chunk or entity, the next step of the page,
\* the next page, or none
NextDispatch ==
    CASE run.pc = "adjust" ->
           ResetSent(IF run.ci < Len(run.changeChunks)
                     THEN [run EXCEPT !.ci = @ + 1, !.attempt = 1]
                     ELSE EnterPolicy(run))
      [] run.pc = "policy" ->
           ResetSent(IF run.pi < Len(run.policyCalls)
                     THEN [run EXCEPT !.pi = @ + 1]
                     ELSE EndPage(run))
      [] run.pc = "update" ->
           ArchiveSent(ArchiveScan([run EXCEPT !.ni = @ + 1]))

\* what a mutation is about: the changes of a chunk, the variants of a
\* product, a product
Entities(request) ==
    IF IsAdjustCall(request) THEN [changes |-> request.variables.input.changes]
    ELSE request.variables

\* the call made in this step is the mutation just answered, for the same
\* entities
Reissued ==
    /\ inflight' # << >>
    /\ inflight'[1].op = LastCall(calls').op
    /\ Entities(inflight'[1]) = Entities(LastCall(calls'))

\* the attempt of the fallback that follows an attempt
NextAttempt(c) ==
    Request(c.op, [input |-> [c.variables.input EXCEPT
                                !.reason = ReasonOrder[ReasonIndex(@) + 1]]])

ResultFields ==
    IF run.fn = "runInventoryReset"
    THEN {"ok", "locations", "variantsScanned", "inventoryAdjustCalls",
          "inventoryAdjustUserErrors", "inventoryAdjustIgnoredNotStockedErrors",
          "policyUpdateCalls", "policyUpdatedVariants", "policyUpdateUserErrors",
          "sampleErrors"}
    ELSE {"ok", "scanned", "archived", "alreadyArchived", "userErrors", "sampleErrors"}

\* the run goes on, or returns its result with every field
NotAborted ==
    /\ run'.pc # "threw"
    /\ run'.error = Undefined
    /\ run'.pc = "returned" => DOMAIN run'.result = ResultFields

\* C12 as stated: user errors of a mutation never abort or shorten a run and
\* are not thrown; after them the run makes the call it would have made
\* otherwise, which is not the failed mutation for the same entities, and it
\* returns a complete result.
C12_Original ==
    [][MutationFailed =>
         /\ NotAborted
         /\ inflight' = NextDispatch
         /\ ~Reissued]_vars

\* C12 (amended): as stated, but for an inventoryAdjustQuantities answer with
\* an INVALID_REASON user error while a fallback reason is left: the same
\* changes are sent again with the next reason.
C12_UserErrorsNeverAbort ==
    [][MutationFailed =>
         /\ NotAborted
         /\ IF AsksForNextReason(LastCall(calls'))
            THEN inflight' = <<NextAttempt(LastCall(calls'))>>
            ELSE /\ inflight' = NextDispatch
                 /\ ~Reissued]_vars

\* an archive run that has returned: the update of p1 had user errors, p3 was
\* updated after it
C12_Witness ==
    /\ run.fn = "archiveProductsByVendor"
    /\ run.pc = "returned"
    /\ run.result.userErrors > 0
    /\ run.result.archived = 1
    /\ \E i \in 1..(Len(calls) - 1) :
          /\ IsArchiveCall(calls[i])
          /\ calls[i].variables.id = "p1"
          /\ calls[i].reply.data
          /\ calls[i].reply.userErrors # << >>
          /\ IsArchiveCall(calls[i + 1])
          /\ calls[i + 1].variables.id = "p3"
          /\ calls[i + 1].reply.data
          /\ calls[i + 1].reply.userErrors = << >>

-----------------------------------------------------------------------------
(* The three classes of archiveProductsByVendor                            *)

IsProductsCall(c) == c.op = "ProductsByVendor"

\* the positions of the answered products queries in the log
ProductPages(log) == {k \in 1..Len(log) : IsProductsCall(log[k]) /\ log[k].reply.data}

\* the productUpdate calls made for the page fetched at position k
UpdatesOfPage(log, k) ==
    LET later == {j \in (k + 1)..Len(log) : IsProductsCall(log[j])}
        end   == IF later = {} THEN Len(log)
                 ELSE (CHOOSE j \in later : \A i \in later : j <= i) - 1
    IN  SelectSeq(SubSeq(log, k + 1, end), IsArchiveCall)

\* the page fetched at position k has been worked through
ProductPageDone(log, k) ==
    \/ \E j \in (k + 1)..Len(log) : IsProductsCall(log[j])
    \/ run.pc = "returned"

\* the ids of the products of a page that are not ARCHIVED, in page order
ToArchive(nodes) ==
    LET active == SelectSeq(nodes, LAMBDA p : p.status # "ARCHIVED")
    IN  [i \in 1..Len(active) |-> active[i].id]

\* the number of productUpdate calls that were answered with user errors
FailedProducts(log) ==
    Cardinality({i \in 1..Len(log) :
                   /\ IsArchiveCall(log[i])
                   /\ log[i].reply.data
                   /\ log[i].reply.userErrors # << >>})

\* the product whose productUpdate call is out, or was answered without data
InProcess ==
    IF run.pc = "update" \/ (run.pc = "threw" /\ IsArchiveCall(LastCall(calls)))
    THEN 1 ELSE 0

\* every product the store has shown to the run is ARCHIVED
AllArchived(log) ==
    \A k \in ProductPages(log) :
       \A n \in 1..Len(log[k].reply.nodes) : log[k].reply.nodes[n].status = "ARCHIVED"

\* C27: in archiveProductsByVendor every scanned product is in exactly one
\* of three classes: after each product, scanned = archived + alreadyArchived
\* + the number of products whose productUpdate returned user errors; an
\* ARCHIVED product is counted as alreadyArchived and gets no productUpdate
\* call, every other scanned product gets exactly one; a run over products
\* that are all ARCHIVED makes no mutation and returns ok:true with
\* archived = 0.
C27_ThreeClasses ==
    run.fn = "archiveProductsByVendor" =>
       /\ run.result.scanned =
             run.result.archived + run.result.alreadyArchived
               + FailedProducts(calls) + InProcess
       /\ \A k \in ProductPages(calls) :
             LET sent == [u \in 1..Len(UpdatesOfPage(calls, k)) |->
                            UpdatesOfPage(calls, k)[u].variables.id]
             IN  IF ProductPageDone(calls, k)
                 THEN sent = ToArchive(calls[k].reply.nodes)
                 ELSE IsPrefix(sent, ToArchive(calls[k].reply.nodes))
       /\ \A c \in 1..Len(calls) : IsArchiveCall(calls[c]) =>
             \E k \in ProductPages(calls) : k < c
       /\ (run.pc = "returned" /\ AllArchived(calls)) =>
             /\ \A c \in 1..Len(calls) : ~IsMutationCall(calls[c])
             /\ run.result.ok
             /\ run.result.archived = 0
             /\ run.result.alreadyArchived = run.result.scanned

\* a returned run over an active, an archived and a draft product: the
\* update of the first had user errors, the third was archived
C27_Witness ==
    /\ run.fn = "archiveProductsByVendor"
    /\ run.pc = "returned"
    /\ run.result.scanned = 3
    /\ run.result.archived = 1
    /\ run.result.alreadyArchived = 1
    /\ FailedProducts(calls) = 1
    /\ run.result.userErrors = 2
    /\ Len(SelectSeq(calls, IsArchiveCall)) = 2

-----------------------------------------------------------------------------
(* The counters of dispatched work                                         *)

RECURSIVE SumOf(_)
SumOf(numbers) == IF numbers = << >> THEN 0 ELSE Head(numbers) + SumOf(Tail(numbers))

\* the number of variants named in the answered productVariantsBulkUpdate calls
VariantsSent(log) ==
    LET updates == SelectSeq(log, LAMBDA c : IsPolicyCall(c) /\ c.reply.data)
    IN  SumOf([u \in 1..Len(updates) |-> Len(updates[u].variables.variants)])

\* the number of variants the pages of the log show with a policy other than DENY
VariantsToDeny(log) ==
    LET pages == SelectSeq(log, LAMBDA c : IsVariantsCall(c) /\ c.reply.data)
    IN  SumOf([p \in 1..Len(pages) |->
                 Len(SelectSeq(pages[p].reply.nodes,
                               LAMBDA v : v.inventoryPolicy # "DENY"))])

\* the chunks of changes dispatched: every chunk starts with the first reason
ChunksDispatched(log) ==
    Len(SelectSeq(log, LAMBDA c : IsAdjustCall(c) /\ c.variables.input.reason = ReasonOrder[1]))

\* the attempts whose answer the fallback has returned
ChunksAnswered(log) == Len(SelectSeq(log, IsReturned))

-----------------------------------------------------------------------------
(* A failure after accepted mutations                                      *)

\* the mutations of a log that the remote has applied
AppliedMutations(log) == SelectSeq(log, LAMBDA c : IsMutationCall(c) /\ Applied(c))

\* the mutations of a page are made before the page after it is fetched
PageByPage(log) ==
    /\ \A k \in VariantPages(log) :
          (\E j \in (k + 1)..Len(log) : IsVariantsCall(log[j])) =>
             LET nodes     == log[k].reply.nodes
                 pageCalls == CallsOfPage(log, k)
             IN  \A p \in {nodes[n].product.id : n \in 1..Len(nodes)} :
                    SentFor(pageCalls, p) = EncounteredFor(nodes, p)
    /\ \A k \in ProductPages(log) :
          (\E j \in (k + 1)..Len(log) : IsProductsCall(log[j])) =>
             LET updates == UpdatesOfPage(log, k)
             IN  [u \in 1..Len(updates) |-> updates[u].variables.id]
                   = ToArchive(log[k].reply.nodes)

\* C25: mutations are applied page by page before the next page is fetched;
\* when a remote call of runInventoryReset or archiveProductsByVendor fails
\* after m mutations of the run were accepted, those mutations stay applied,
\* nothing is rolled back, and the caller receives the error and no result
\* describing the work already done.
C25_FailureKeepsMutations ==
    /\ PageByPage(calls)
    /\ run.pc = "threw" =>
          /\ ~LastCall(calls).reply.data
          /\ \A i \in 1..(Len(calls) - 1) : calls[i].reply.data
          /\ inflight = << >>
          /\ Outcome(run).kind = "error"
          /\ DOMAIN Outcome(run) = {"kind", "error"}
          /\ Outcome(run).error = run.error.value

\* a reset that fails on the fetch of its second page, after the adjustment
\* and the two policy updates of the first page were applied
C25_Witness ==
    /\ run.fn = "runInventoryReset"
    /\ run.pc = "threw"
    /\ IsVariantsCall(LastCall(calls))
    /\ Len(AppliedMutations(calls)) = 3
    /\ run.result.policyUpdatedVariants = 3
    /\ run.result.inventoryAdjustCalls = 1

-----------------------------------------------------------------------------
(* Termination of the loops                                                *)

\* the loops that fetch locations, variants to reset and products to archive
InitLive ==
    /\ run \in {StartLocations, StartReset(<<"L1">>)} \cup {StartArchive(v) : v \in Vendors}
    /\ calls = << >>
    /\ inflight = Sent(run)
    /\ remote = "cursors"
    /\ elsewhere = 0
    /\ WebhookIdle
    /\ ChunkIdle

NextLive ==
    \/ LocationsFetch
    \/ ResetFetchVariants
    \/ ResetFetchLevels
    \/ ResetAdjust
    \/ ResetPolicyUpdate
    \/ ArchiveFetchProducts
    \/ ArchiveUpdate

\* every call that is out is answered in the end
SpecLive == InitLive /\ [][NextLive]_vars /\ WF_vars(NextLive)

\* runInventoryReset alone
InitReset ==
    /\ run = StartReset(<<"L1">>)
    /\ calls = << >>
    /\ inflight = ResetSent(run)
    /\ remote = "cursors"
    /\ elsewhere = 0
    /\ WebhookIdle
    /\ ChunkIdle

NextReset ==
    \/ ResetFetchVariants
    \/ ResetFetchLevels
    \/ ResetAdjust
    \/ ResetPolicyUpdate

SpecReset == InitReset /\ [][NextReset]_vars

IsPageFetch(c) ==
    c.op \in {"InventoryResetLocations", "InventoryPolicyScanVariants",
              "InventoryResetVariants", "ProductsByVendor"}

\* the page fetches that were answered with a page that has no next page
LastPages(log) ==
    {i \in 1..Len(log) :
       /\ IsPageFetch(log[i])
       /\ log[i].reply.data
       /\ ~log[i].reply.pageInfo.hasNextPage}

\* no page is asked for after a page that has no next page
PagesStop ==
    \A i \in LastPages(calls) :
       /\ \A j \in (i + 1)..Len(calls) : ~IsPageFetch(calls[j])
       /\ inflight # << >> => ~IsPageFetch(inflight[1])

\* a run returns only after a page that has no next page
OnlyLastPageEnds == run.pc = "returned" => LastPages(calls) # {}

\* some call was answered without data
SomeCallFailed == \E i \in 1..Len(calls) : ~calls[i].reply.data

\* C21: a pagination loop stops at the first page whose hasNextPage is
\* false and asks for nothing after it; nothing else ends the loop; a run
\* whose calls all return, from a remote that reports hasNextPage=false
\* after finitely many pages, returns in the end.
C21_LoopEnds ==
    /\ [](PagesStop /\ OnlyLastPageEnds)
    /\ <>(run.pc = "returned" \/ SomeCallFailed)

\* a reset that has returned after as many pages as the remote had, the
\* last one alone without a next page
C21_Witness ==
    /\ run.fn = "runInventoryReset"
    /\ run.pc = "returned"
    /\ run.page = MaxResetPages
    /\ Cardinality(LastPages(calls)) = 1
    /\ Len(SelectSeq(calls, IsPageFetch)) = MaxResetPages
    /\ ~SomeCallFailed

-----------------------------------------------------------------------------
(* A remote that gives no cursor for the next page                         *)

\* the four loops against a remote whose every page says there is a next
\* page and gives a null or an empty endCursor
InitRestart ==
    /\ run \in {StartLocations, StartScan, StartReset(<<"L1">>)}
                 \cup {StartArchive(v) : v \in Vendors}
    /\ calls = << >>
    /\ inflight = Sent(run)
    /\ remote = "restarts"
    /\ elsewhere = 0
    /\ WebhookIdle
    /\ ChunkIdle

SpecRestart == InitRestart /\ [][NextRuns]_vars

\* the positions of the answered page fetches in the log
FetchedPages(log) == {k \in 1..Len(log) : IsPageFetch(log[k]) /\ log[k].reply.data}

\* the page tells of a next page and gives no cursor for it
NoCursor(pageInfo) ==
    pageInfo.hasNextPage /\ (pageInfo.endCursor = Null \/ pageInfo.endCursor = Some(""))

\* the request for the next page is out: the pages fetched are worked through
AtPageEnd == inflight # << >> /\ IsPageFetch(inflight[1])

\* the requests of the policy updates or product updates made for the page
\* fetched at position k
MutationsOfPage(log, k) ==
    LET later == {j \in (k + 1)..Len(log) : IsPageFetch(log[j])}
        end   == IF later = {} THEN Len(log)
                 ELSE (CHOOSE j \in later : \A i \in later : j <= i) - 1
        made  == SelectSeq(SubSeq(log, k + 1, end),
                           LAMBDA c : IsPolicyCall(c) \/ IsArchiveCall(c))
    IN  [i \in 1..Len(made) |-> Request(made[i].op, made[i].variables)]

\* the pages that are worked through
DonePages(log) ==
    {k \in FetchedPages(log) :
       AtPageEnd \/ \E j \in (k + 1)..Len(log) : IsPageFetch(log[j])}

\* the number of nodes of the pages fetched
NodesFetched(log) ==
    LET pages == SelectSeq(log, LAMBDA c : IsPageFetch(c) /\ c.reply.data)
    IN  SumOf([p \in 1..Len(pages) |-> Len(pages[p].reply.nodes)])

\* the ids of the nodes of the pages fetched, page after page
IdsFetched(log) ==
    LET pages == SelectSeq(log, LAMBDA c : IsPageFetch(c) /\ c.reply.data)
    IN  Flatten([p \in 1..Len(pages) |->
                   [n \in 1..Len(pages[p].reply.nodes) |-> pages[p].reply.nodes[n].id]])

\* the nodes of every page are counted, those of a page seen before as well
CountedAgain ==
    CASE run.fn = "getAllLocationIds" -> run.locationIds = IdsFetched(calls)
      [] run.fn = "scanInventoryPolicies" ->
           /\ run.result.variantsScanned = NodesFetched(calls)
           /\ run.visited = IdsFetched(calls)
      [] run.fn = "runInventoryReset" ->
           /\ run.result.variantsScanned = NodesFetched(calls)
           /\ AtPageEnd => run.result.policyUpdatedVariants = VariantsToDeny(calls)
      [] run.fn = "archiveProductsByVendor" ->
           AtPageEnd => run.result.scanned = NodesFetched(calls)

\* C24: in every pagination loop a page with hasNextPage=true and a null or
\* empty endCursor is followed by a request with cursor null: the traversal
\* starts again instead of stopping or failing; against a remote that keeps
\* answering so the loop does not end, and the entities of the first page are
\* processed, and in runInventoryReset and archiveProductsByVendor mutated
\* and counted, again at each restart.
C24_RestartsFromFirstPage ==
    remote = "restarts" =>
       /\ run.pc # "returned"
       /\ run.pc = "threw" => ~IsPageFetch(LastCall(calls))
       /\ \A k \in FetchedPages(calls) :
             /\ NoCursor(calls[k].reply.pageInfo)
             /\ calls[k].variables.after = Null
       /\ AtPageEnd => inflight[1].variables.after = Null
       /\ \A k \in DonePages(calls) :
             \A first \in DonePages(calls) :
                calls[first].reply.nodes = calls[k].reply.nodes =>
                   MutationsOfPage(calls, k) = MutationsOfPage(calls, first)
       /\ CountedAgain

\* a reset that has worked through the first page twice and asks for it a
\* third time: eight variants counted, six sent in four policy updates
C24_Witness ==
    /\ remote = "restarts"
    /\ run.fn = "runInventoryReset"
    /\ AtPageEnd
    /\ inflight[1].variables.after = Null
    /\ Cardinality(FetchedPages(calls)) = 2
    /\ run.result.variantsScanned = 8
    /\ run.result.policyUpdatedVariants = 6
    /\ run.result.policyUpdateCalls = 4
    /\ Len(SelectSeq(calls, LAMBDA c : IsAdjustCall(c) /\ Applied(c))) = 2

-----------------------------------------------------------------------------
(* A level that changes between the read and the adjust call               *)

\* what another actor adds to the available quantity of i1 at L1
OtherDeltas == {0 - 2, 3}

\* another actor changes the level while the adjust call of the run is out:
\* after getInventoryZeroingChanges has read it, before the remote applies
\* the deltas
OtherActorAdjusts ==
    /\ run.fn = "runInventoryReset"
    /\ run.pc = "adjust"
    /\ inflight # << >>
    /\ elsewhere = 0
    /\ \E k \in OtherDeltas : elsewhere' = k
    /\ UNCHANGED <<webhookVars, chunkVars, run, calls, inflight, remote>>

\* runInventoryReset over a shop of one page, with another actor
InitRace ==
    /\ run = StartReset(<<"L1">>)
    /\ calls = << >>
    /\ inflight = ResetSent(run)
    /\ remote = "single"
    /\ elsewhere = 0
    /\ WebhookIdle
    /\ ChunkIdle

NextRace ==
    \/ ResetFetchVariants
    \/ ResetFetchLevels
    \/ ResetAdjust
    \/ ResetPolicyUpdate
    \/ OtherActorAdjusts

SpecRace == InitRace /\ [][NextRace]_vars

\* the levels of i1 at L1 with an available quantity that the reads returned
ObservedLevels(log) ==
    SelectSeq(Flatten([i \in 1..Len(log) |->
                         IF IsLevelsCall(log[i]) /\ log[i].reply.data
                         THEN ReturnedLevels(log[i].reply.nodes) ELSE << >>]),
              LAMBDA e : /\ e.item = "i1"
                         /\ e.level.location.id = "L1"
                         /\ AvailableQuantities(e.level) # << >>)

\* the available quantity of i1 at L1 when the run read it
ObservedQuantity(log) == AvailableQuantities(ObservedLevels(log)[1].level)[1].quantity

\* the available quantity of i1 at L1 after the calls of a log: what was
\* there at the read, what others added, what the applied calls added
LevelAtEnd(log) ==
    ObservedQuantity(log) + elsewhere + SumDeltas(AppliedChanges(log), "i1", "L1")

AdjustRequests == SelectSeq(calls \o inflight, IsAdjustCall)

\* C23: the delta of an adjust call is the negation of the quantity that was
\* read, whatever others have done to the level since the read; when they
\* changed it by k before the deltas were applied, the level ends at k and
\* not at zero, and the run completes all the same.
C23_StaleDelta ==
    (run.fn = "runInventoryReset" /\ Len(ObservedLevels(calls)) = 1) =>
       /\ \A i \in 1..Len(AdjustRequests) :
             \A j \in 1..Len(AdjustRequests[i].variables.input.changes) :
                LET change == AdjustRequests[i].variables.input.changes[j]
                IN  (change.inventoryItemId = "i1" /\ change.locationId = "L1") =>
                       change.delta = 0 - ObservedQuantity(calls)
       /\ (run.pc = "returned" /\ AppliedChanges(calls) # << >>) =>
             LevelAtEnd(calls) = elsewhere

\* 7 was read, another actor added 3, the delta -7 was applied: the run
\* returns ok:true and the level is at 3
C23_Witness ==
    /\ run.pc = "returned"
    /\ run.result.ok
    /\ Len(ObservedLevels(calls)) = 1
    /\ ObservedQuantity(calls) = 7
    /\ elsewhere = 3
    /\ AppliedChanges(calls) # << >>
    /\ SumDeltas(AppliedChanges(calls), "i1", "L1") = 0 - 7
    /\ LevelAtEnd(calls) = 3

-----------------------------------------------------------------------------
(* Deliveries handled at the same time                                     *)

\* requests of both routes with the webhook ids w1 and w2, signed with the
\* right key or with another one
ConcurrentRequests ==
    UNION {
      {MakeRequest(r, Header(HmacSha256Base64(k, b)), Header("orders/create"),
                   Header("a.myshopify.com"), w, Header("2025-01"), b) :
          r \in Routes, k \in Keys, w \in {Header("w1"), Header("w2")}}
      : b \in Bodies}

\* every handler takes one request; the steps of the handlers interleave at
\* their awaits
InitConcurrent ==
    /\ secret = Some("k1")
    /\ handlers = [h \in HandlerIds |-> IdleHandler]
    /\ db \in InitialTables
    /\ received = 0
    /\ ChunkIdle
    /\ OrchIdle

NextConcurrent ==
    \E h \in HandlerIds :
        \/ Receive(h, ConcurrentRequests)
        \/ Verify(h)
        \/ ReadJson(h)
        \/ Create(h)
        \/ Respond(h)

SpecConcurrent == InitConcurrent /\ [][NextConcurrent]_vars

\* the handler holds a delivery: a correctly signed request whose body is
\* empty or parses
Delivery(h) ==
    /\ handlers[h].request # Undefined
    /\ handlers[h].request.headers.hmac = Header(Digest(h))
    /\ ~readShopifyWebhookJson(handlers[h].request).threw

SameDelivery(g, h) ==
    /\ Delivery(g)
    /\ Delivery(h)
    /\ handlers[g].request.headers.webhookId = handlers[h].request.headers.webhookId
    /\ handlers[g].request.body = handlers[h].request.body

\* the store has rejected the insert of the handler
InsertRejected(h) ==
    /\ handlers[h].pc = "done"
    /\ handlers[h].response = UncaughtError("PrismaClientError")

RowsWithWebhookId(w) == {i \in 1..Len(db) : db[i].webhookId = Some(w)}

\* C22: deliveries with the same webhook id and body are not deduplicated,
\* however the steps of their handlers interleave: each handler whose insert
\* the store did not reject has inserted a row of its own and answers 200,
\* and when all have answered 200 the store holds as many rows with that
\* webhook id as there were deliveries.
C22_NoDeduplication ==
    /\ \A h \in HandlerIds :
          (Delivery(h) /\ handlers[h].pc \in {"respond", "done"}
                       /\ ~InsertRejected(h)) =>
             /\ Len(handlers[h].rows) = 1
             /\ handlers[h].rows[1] \in 1..Len(db)
             /\ db[handlers[h].rows[1]].webhookId
                  = OrUndefined(handlers[h].request.headers.webhookId)
             /\ handlers[h].pc = "done" => handlers[h].response = Response(200, "OK")
    /\ \A g, h \in HandlerIds :
          (g # h /\ handlers[g].rows # << >> /\ handlers[h].rows # << >>) =>
             handlers[g].rows[1] # handlers[h].rows[1]
    /\ (/\ \A g, h \in HandlerIds : SameDelivery(g, h)
        /\ \A h \in HandlerIds : handlers[h].pc = "done" /\ ~InsertRejected(h)) =>
          \A h \in HandlerIds :
             Cardinality(RowsWithWebhookId(handlers[h].request.headers.webhookId.value))
               = Cardinality(HandlerIds)

\* two handlers, one of each route, took the same delivery; both answered
\* 200 and the store holds two rows with the webhook id, with equal payloads
C22_Witness ==
    /\ SameDelivery(1, 2)
    /\ handlers[1].request.route # handlers[2].request.route
    /\ \A h \in HandlerIds : handlers[h].response = Response(200, "OK")
    /\ Cardinality(RowsWithWebhookId("w1")) = 2
    /\ Len(db) = 3
    /\ db[2].payload = db[3].payload

=============================================================================
